---- MODULE Spec2Model ----
(***************************************************************************)
(* Browser-session server: session lifecycle (session/session.go),         *)
(* session registry (session/manager.go), HTTP control plane (main.go),    *)
(* the debugger proxy (proxy/proxy.go), the WHIP surface and the           *)
(* screencast Pump (whip.go).                                              *)
(*                                                                         *)
(* net/http runs every request in a goroutine of its own.  A goroutine is  *)
(* named after the object it works on: Creator(s) is the handler whose     *)
(* NewSession call drew uuid s, Timer(s) the auto-cleanup goroutine of     *)
(* Session s, Deleter the one DeleteSession call that holds the registry   *)
(* write lock (any other DeleteSession call is parked on that lock and has *)
(* no state yet), Poster(r) the POST /whip handler that allocated WHIP     *)
(* resource r.  Handlers that only read answer as a function of the state  *)
(* they read; they are operators.                                          *)
(***************************************************************************)
EXTENDS Integers, Sequences, FiniteSets, TLC

\* Number of NewSession calls explored; uuid.New() hands out 1, 2, ... in turn.
MaxSessions == 2

\* Number of WHIP resources explored; uuid.New() hands out 1, 2, ... in turn.
MaxResources == 2

\* Number of Page.screencastFrame events a Pump is followed through.
MaxFrames == 2

\* Number of Runtime.evaluate commands an automation ticker is followed
\* through.
MaxTicks == 2

\* Number of websocket messages each end of a proxied connection sends.
MaxMessages == 2

\* Length of the longest POST /whip body explored.
MaxOfferLen == 3

\* Number of data channels the peer creates on one peer connection.
MaxChannels == 2

\* Length of the longest target list the browser's /json returns.
MaxTargets == 2

\* Number of debugger messages other than frame events a Pump reads.
MaxDropped == 1

SessionIds == 1..MaxSessions
ResourceIds == 1..MaxResources

Creator(s) == <<"create", s>>
Timer(s) == <<"timer", s>>
Deleter == <<"delete", 0>>
Poster(r) == <<"whip", r>>
\* Remover(r, n): a DELETE handler that found WHIP resource r (RemoverNos:
\* the handlers explored at work on one resource at a time); Pump(r): the
\* streamScreencastToDataChannel goroutine of resource r.
RemoverNos == {1}
Remover(r, n) == <<"whipdel", r, n>>
Pump(r) == <<"pump", r>>
NoThread == <<"none", 0>>
Threads ==
    {Creator(s) : s \in SessionIds} \cup {Timer(s) : s \in SessionIds}
        \cup {Deleter} \cup {Poster(r) : r \in ResourceIds}
        \cup {Remover(r, n) : r \in ResourceIds, n \in RemoverNos}
        \cup {Pump(r) : r \in ResourceIds}

\* HTTP status codes written by the handlers.
StatusOK == 200
StatusCreated == 201
StatusBadRequest == 400
StatusSwitchingProtocols == 101
StatusNoContent == 204
StatusNotFound == 404
StatusInternalServerError == 500
StatusBadGateway == 502

VARIABLES
    sessions,      \* Manager.sessions: map key -> *Session
    mu,            \* Manager.mu: the goroutine holding the write lock
    nextId,        \* number of uuids handed out by NewSession
    isClosed,      \* Session.isClosed
    smu,           \* Session.mu: the goroutine holding it
    wsURL,         \* Session.wsURL
    ctxDone,       \* the context bound to the subprocess is cancelled
    cancelCalls,   \* how often the Session's cancel func has been invoked
    removeCalls,   \* how often os.RemoveAll ran on the Session's data dir
    proc,          \* the browser subprocess: "none", "running", "exited"
    dir,           \* /tmp/chrome-profile-<id> exists
    scan,          \* the stderr-scanning goroutine of parseDevToolsURL
    scanURL,       \* the URL that goroutine is sending on its channel
    pc,            \* control point of every goroutine
    delId,         \* the id the DeleteSession call in progress was given
    startErr,      \* history: how NewSession failed for an id ("none" if not)
    fired,         \* history: ids whose lifetime timer fired
    stopReturns,   \* history: number of Stop calls that returned, per Session
    deleted,       \* history: ids DeleteSession found, stopped and removed
    whipResources, \* whipResources: map resource id -> *WHIPResource
    nextRes,       \* number of WHIP resource uuids handed out
    whipReq,       \* the request each POST /whip handler is serving
    pcState,       \* connection state of the resource's peer connection
    whipResp,      \* the response each POST /whip handler has written
    rmu,           \* WHIPResource.mu: the goroutine holding it
    closeCalls,    \* how often PeerConnection.Close() ran, per resource
    closedCb,      \* the callback for the closed state is yet to run
    delOK,         \* history: DELETEs answered 200, per resource
    patchResp,     \* the last PATCH on a WHIP resource path and its answer
    gathered,      \* ICE gathering of the resource's connection is complete
    dcState,       \* the screencast data channel: "none", "open", "closed"
    cur,           \* the frame the Pump is sending: size, sessionId, offset i
    pumpLog,       \* history: what the Pump consumed, sent and acked, in order
    conn,          \* the Pump's page websocket: "none", "open", "closed"
    ticker,        \* the automation goroutine: "none", "running", "done"
    ticks,         \* Runtime.evaluate commands written successfully
    evalAfterClose, \* history: one was written after conn.Close()
    px,            \* control point of the /cdp handler inside ProxyCDP
    fwd,           \* control point of the forwarder reading from each side
    pxStatus,      \* the HTTP status the /cdp request was answered with
    dialCalls,     \* how often ProxyCDP dialled the debugger URL
    upgradeCalls,  \* how often ProxyCDP tried to upgrade the client
    connOpen,      \* ProxyCDP's websocket to each side is open
    peerGone,      \* the peer of that side has hung up
    errChan,       \* number of errors buffered in errChan
    inbox,         \* messages a side has sent that ProxyCDP has not read yet
    sent,          \* number of messages each side has sent
    held,          \* the message a forwarder has read and is writing
    readLog,       \* history: messages read from each side, in order
    writeLog,      \* history: messages written to each side, in order
    appHost,       \* the APP_HOST environment variable ("" when unset)
    httpResp,      \* the last response built from resolveHost/resolveScheme
    createBody,    \* the body of the POST /sessions that drew each uuid
    lifetime,      \* the duration that request passed to CreateSession
    offerReq,      \* the body of each POST /whip and how it was delivered
    offer,         \* the SDP each POST /whip handed to SetRemoteDescription
    whipPanic,     \* the POST /whip whose handler panicked reading its body
    chans,         \* the inbound data channels of each peer connection
    recorded,      \* WHIPResource.DataChannel: the channel recorded (0: nil)
    targets,       \* what the Pump's GET /json on the browser brought
    dialled,       \* history: the debugger URLs the Pump dialled
    cdpOut,        \* history: the WriteJSON calls on the Pump's websocket
    writeMu,       \* the Pump's writeMu: the goroutine holding it
    writing,       \* the goroutines inside WriteJSON on the Pump's websocket
    cdpIn          \* history: the debugger messages the Pump has read

sessVars == <<isClosed, smu, wsURL, ctxDone, cancelCalls, removeCalls>>
procVars == <<proc, dir, scan, scanURL>>
histVars == <<startErr, fired, stopReturns, deleted>>
whipVars == <<whipResources, nextRes, whipReq, pcState, whipResp>>
whipDelVars == <<rmu, closeCalls, closedCb, delOK, patchResp, gathered>>
tickVars == <<ticker, ticks, evalAfterClose>>
pumpVars == <<dcState, cur, pumpLog, conn, tickVars>>
proxyVars ==
    <<px, fwd, pxStatus, dialCalls, upgradeCalls, connOpen, peerGone, errChan,
      inbox, sent, held, readLog, writeLog>>
urlVars == <<appHost, httpResp, createBody, lifetime>>
offerVars == <<offerReq, offer, whipPanic>>
chanVars == <<chans, recorded>>
wireVars == <<targets, dialled, cdpOut, writeMu, writing, cdpIn>>
extVars == <<offerVars, chanVars, wireVars>>
auxVars == <<whipDelVars, pumpVars, proxyVars, urlVars, extVars>>
vars ==
    <<sessions, mu, nextId, sessVars, procVars, pc, delId, histVars, whipVars,
      auxVars>>

----------------------------------------------------------------------------
\* Lines the browser may print on stderr, as token sequences.
DevToolsPrefix == "DevTools listening on "
Lines ==
    { <<"[warn]">>,
      <<DevToolsPrefix>>,
      <<DevToolsPrefix, "ws://">>,
      <<DevToolsPrefix, "wss://", "127.0.0.1:9222/devtools">>,
      <<"ws://", "127.0.0.1:9222/devtools">>,
      <<DevToolsPrefix, "ws://", "127.0.0.1:9222/devtools">>,
      <<"[warn]", DevToolsPrefix, "ws://", "127.0.0.1:9222/devtools">> }

MinOf(S) == CHOOSE x \in S : \A y \in S : x <= y

\* re.FindStringSubmatch(line) with `DevTools listening on (ws://.+)\n?`:
\* the leftmost place where the prefix is followed by ws:// and at least one
\* more character; the group runs to the end of the line. <<>> is no match.
MatchDevToolsURL(line) ==
    LET at == { i \in 1..(Len(line) - 2) :
                    line[i] = DevToolsPrefix /\ line[i + 1] = "ws://" }
    IN  IF at = {} THEN <<>> ELSE SubSeq(line, MinOf(at) + 1, Len(line))

\* Manager.GetSession: the Session stored under id and the presence flag.
GetSession(id) ==
    IF id \in DOMAIN sessions THEN <<sessions[id], TRUE>> ELSE <<0, FALSE>>

\* Manager.ListSessions: the stored Sessions (enumeration order unspecified).
ListSessions == { sessions[k] : k \in DOMAIN sessions }

\* The RWMutex admits a reader when no writer holds it.
CanRLock == mu = NoThread

\* Content-Type headers a POST /whip may carry.
SDP == "application/sdp"
ContentTypes == {SDP, "application/json", "application/sdp; charset=utf-8", ""}

NoWhipReq == [sid |-> 0, ct |-> ""]
NoWhipResp == [status |-> 0, contentType |-> "", location |-> <<>>, answerOf |-> 0]

\* The two ends ProxyCDP joins.
Sides == {"client", "target"}
Other(side) == IF side = "client" THEN "target" ELSE "client"

NoFrame == [size |-> 0, sessionId |-> 0, i |-> 0]
NoHttpReq == [host |-> "", xfp |-> "", tls |-> FALSE]
NoHttpResp == [handler |-> "", req |-> NoHttpReq, body |-> {}]

\* No request body read, no duration computed.
NoBody == <<[kind |-> "none", fields |-> <<>>]>>
NoDuration == <<>>

NoPatch == [rid |-> 0, status |-> 0]

\* No request body; no answer from the browser's /json.
NoOfferReq == [body |-> <<>>, contentLength |-> 0, first |-> 0, sent |-> FALSE]
NoTargets == [outcome |-> "none", list |-> <<>>]

\* No DELETE or PATCH handler has run on any WHIP resource.
WhipDelInit ==
    /\ rmu = [r \in ResourceIds |-> NoThread]
    /\ closeCalls = [r \in ResourceIds |-> 0]
    /\ closedCb = [r \in ResourceIds |-> FALSE]
    /\ delOK = [r \in ResourceIds |-> 0]
    /\ patchResp = NoPatch
    /\ gathered = [r \in ResourceIds |-> FALSE]

\* No data channel has opened and no Pump has started.
PumpInit ==
    /\ dcState = [r \in ResourceIds |-> "none"]
    /\ cur = [r \in ResourceIds |-> NoFrame]
    /\ pumpLog = [r \in ResourceIds |-> <<>>]
    /\ conn = [r \in ResourceIds |-> "none"]
    /\ ticker = [r \in ResourceIds |-> "none"]
    /\ ticks = [r \in ResourceIds |-> 0]
    /\ evalAfterClose = [r \in ResourceIds |-> FALSE]

\* No /cdp request has arrived.
ProxyInit ==
    /\ px = "none"
    /\ fwd = [d \in Sides |-> "none"]
    /\ pxStatus = 0
    /\ dialCalls = 0
    /\ upgradeCalls = 0
    /\ connOpen = [d \in Sides |-> FALSE]
    /\ peerGone = [d \in Sides |-> FALSE]
    /\ errChan = 0
    /\ inbox = [d \in Sides |-> <<>>]
    /\ sent = [d \in Sides |-> 0]
    /\ held = [d \in Sides |-> <<>>]
    /\ readLog = [d \in Sides |-> <<>>]
    /\ writeLog = [d \in Sides |-> <<>>]

\* APP_HOST is unset, no SessionResponse has been built and no POST
\* /sessions has arrived.
UrlInit ==
    /\ appHost = ""
    /\ httpResp = NoHttpResp
    /\ createBody = [s \in SessionIds |-> NoBody]
    /\ lifetime = [s \in SessionIds |-> NoDuration]

\* No POST /whip body has been read, no data channel announced and no
\* Pump has queried its browser.
ExtInit ==
    /\ offerReq = [r \in ResourceIds |-> NoOfferReq]
    /\ offer = [r \in ResourceIds |-> <<>>]
    /\ whipPanic = NoOfferReq
    /\ chans = [r \in ResourceIds |-> <<>>]
    /\ recorded = [r \in ResourceIds |-> 0]
    /\ targets = [r \in ResourceIds |-> NoTargets]
    /\ dialled = [r \in ResourceIds |-> <<>>]
    /\ cdpOut = [r \in ResourceIds |-> <<>>]
    /\ writeMu = [r \in ResourceIds |-> "none"]
    /\ writing = [r \in ResourceIds |-> {}]
    /\ cdpIn = [r \in ResourceIds |-> <<>>]

AuxInit == WhipDelInit /\ PumpInit /\ ProxyInit /\ UrlInit /\ ExtInit

Init ==
    /\ sessions = [k \in {} |-> 0]
    /\ mu = NoThread
    /\ nextId = 0
    /\ isClosed = [s \in SessionIds |-> FALSE]
    /\ smu = [s \in SessionIds |-> NoThread]
    /\ wsURL = [s \in SessionIds |-> <<>>]
    /\ ctxDone = [s \in SessionIds |-> FALSE]
    /\ cancelCalls = [s \in SessionIds |-> 0]
    /\ removeCalls = [s \in SessionIds |-> 0]
    /\ proc = [s \in SessionIds |-> "none"]
    /\ dir = [s \in SessionIds |-> FALSE]
    /\ scan = [s \in SessionIds |-> "none"]
    /\ scanURL = [s \in SessionIds |-> <<>>]
    /\ pc = [t \in Threads |-> "none"]
    /\ delId = 0
    /\ startErr = [s \in SessionIds |-> "none"]
    /\ fired = {}
    /\ stopReturns = [s \in SessionIds |-> 0]
    /\ deleted = {}
    /\ whipResources = [k \in {} |-> 0]
    /\ nextRes = 0
    /\ whipReq = [r \in ResourceIds |-> NoWhipReq]
    /\ pcState = [r \in ResourceIds |-> "none"]
    /\ whipResp = [r \in ResourceIds |-> NoWhipResp]
    /\ AuxInit

----------------------------------------------------------------------------
\* Session lifecycle: NewSession, parseDevToolsURL, Stop (session/session.go)

\* cancel(): cancels the context the subprocess was started with.
Cancel(s) ==
    /\ ctxDone' = [ctxDone EXCEPT ![s] = TRUE]
    /\ cancelCalls' = [cancelCalls EXCEPT ![s] = @ + 1]

\* A CreateSession that ignores the error and goes on to store.
OnNewSessionErrorStore == "cs_store"

\* CreateSession: `if err != nil { return nil, err }`; the handler answers
\* 500 and is done.
OnNewSessionError == "done"

\* CreateSession -> NewSession up to cmd.Start(): a
\* fresh uuid, then StderrPipe or Start fails (cancel, return the error; the
\* handler answers 500) or the browser runs and parseDevToolsURL starts its
\* scanning goroutine.
NewSessionCall ==
    /\ nextId < MaxSessions
    /\ LET id == nextId + 1 IN
        /\ nextId' = id
        /\ \/ /\ Cancel(id)
              /\ startErr' = [startErr EXCEPT ![id] = "start"]
              /\ pc' = [pc EXCEPT ![Creator(id)] = OnNewSessionError]
              /\ UNCHANGED <<proc, scan>>
           \/ /\ proc' = [proc EXCEPT ![id] = "running"]
              /\ scan' = [scan EXCEPT ![id] = "scanning"]
              /\ pc' = [pc EXCEPT ![Creator(id)] = "ns_parse"]
              /\ UNCHANGED <<ctxDone, cancelCalls, startErr>>
    /\ UNCHANGED <<sessions, mu, isClosed, smu, wsURL, removeCalls, dir,
                   scanURL, delId, fired, stopReturns, deleted, whipVars>>

\* A POST /sessions whose body is left open.
NewSessionStart == NewSessionCall /\ UNCHANGED auxVars

\* The scanning goroutine reads one line the running browser printed; on a
\* match it goes on to send the URL on the unbuffered channel.
ScanLine(s) ==
    /\ scan[s] = "scanning"
    /\ proc[s] = "running"
    /\ \E line \in Lines :
        LET url == MatchDevToolsURL(line) IN
        IF url # <<>>
        THEN /\ scan' = [scan EXCEPT ![s] = "sending"]
             /\ scanURL' = [scanURL EXCEPT ![s] = url]
        ELSE UNCHANGED <<scan, scanURL>>
    /\ UNCHANGED <<sessions, mu, nextId, sessVars, proc, dir, pc, delId,
                   histVars, whipVars, auxVars>>

\* stderr reaches EOF once the browser is gone: scanner.Scan() returns false
\* and the goroutine closes the channel.
ScanEOF(s) ==
    /\ scan[s] = "scanning"
    /\ proc[s] = "exited"
    /\ scan' = [scan EXCEPT ![s] = "closed"]
    /\ UNCHANGED <<sessions, mu, nextId, sessVars, proc, dir, scanURL, pc,
                   delId, histVars, whipVars, auxVars>>

\* parseDevToolsURL receives the URL; NewSession builds the Session and
\* spawns the auto-cleanup goroutine.
NewSessionURL(s) ==
    /\ pc[Creator(s)] = "ns_parse"
    /\ scan[s] = "sending"
    /\ scan' = [scan EXCEPT ![s] = "done"]
    /\ scanURL' = [scanURL EXCEPT ![s] = <<>>]
    /\ wsURL' = [wsURL EXCEPT ![s] = scanURL[s]]
    /\ pc' = [pc EXCEPT ![Creator(s)] = "cs_store", ![Timer(s)] = "wait"]
    /\ UNCHANGED <<sessions, mu, nextId, isClosed, smu, ctxDone, cancelCalls,
                   removeCalls, proc, dir, delId, histVars, whipVars, auxVars>>

\* parseDevToolsURL failed with error kind: cancel(), cmd.Process.Kill(),
\* return the error (the data directory is not touched).
NewSessionFail(s, kind) ==
    /\ Cancel(s)
    /\ proc' = [proc EXCEPT ![s] = "exited"]
    /\ startErr' = [startErr EXCEPT ![s] = kind]
    /\ pc' = [pc EXCEPT ![Creator(s)] = OnNewSessionError]
    /\ UNCHANGED <<sessions, mu, nextId, isClosed, smu, wsURL, removeCalls,
                   dir, scanURL, delId, fired, stopReturns, deleted, whipVars,
                   auxVars>>

\* The channel was closed before a URL was found.
NewSessionClosed(s) ==
    /\ pc[Creator(s)] = "ns_parse"
    /\ scan[s] = "closed"
    /\ scan' = [scan EXCEPT ![s] = "done"]
    /\ NewSessionFail(s, "closed")

\* The 5-second timer of parseDevToolsURL won the select.
NewSessionTimeout(s) ==
    /\ pc[Creator(s)] = "ns_parse"
    /\ UNCHANGED scan
    /\ NewSessionFail(s, "timeout")

\* The auto-cleanup goroutine: ctx.Done() is ready and it returns.
TimerCtxDone(s) ==
    /\ pc[Timer(s)] = "wait"
    /\ ctxDone[s]
    /\ pc' = [pc EXCEPT ![Timer(s)] = "done"]
    /\ UNCHANGED <<sessions, mu, nextId, sessVars, procVars, delId, histVars,
                   whipVars, auxVars>>

\* The Session a goroutine inside Stop is stopping.
StopTarget(t) == IF t = Deleter THEN sessions[delId] ELSE t[2]

\* Where a goroutine continues when Stop returns.
AfterStop(t) == IF t = Deleter THEN "del_delete" ELSE "done"

\* A Stop whose guard never sees the flag.
StopGuardNever(s) == FALSE

\* Stop: the guard `if s.isClosed { return }`.
StopGuard(s) == isClosed[s]

\* A Stop that leaves the flag unset.
ClosedFlagUnset == FALSE

\* Stop: `s.isClosed = true`, before s.cancel().
ClosedFlag == TRUE

\* Stop entered by goroutine t: s.mu.Lock(); when already closed return at
\* once (the deferred unlock runs), else s.isClosed = true.
StopEnter(t) ==
    /\ smu[StopTarget(t)] = NoThread
    /\ IF StopGuard(StopTarget(t))
       THEN /\ pc' = [pc EXCEPT ![t] = AfterStop(t)]
            /\ stopReturns' = [stopReturns EXCEPT ![StopTarget(t)] = @ + 1]
            /\ UNCHANGED <<isClosed, smu>>
       ELSE /\ pc' = [pc EXCEPT ![t] = "stop_cancel"]
            /\ smu' = [smu EXCEPT ![StopTarget(t)] = t]
            /\ isClosed' = [isClosed EXCEPT ![StopTarget(t)] = ClosedFlag]
            /\ UNCHANGED stopReturns
    /\ UNCHANGED <<sessions, mu, nextId, wsURL, ctxDone, cancelCalls,
                   removeCalls, procVars, delId, startErr, deleted, whipVars,
                   auxVars>>

\* The auto-cleanup goroutine: time.After(duration) fires and it calls Stop
\* (the timer firing while Session.mu is held is the timer firing later).
TimerFire(s) ==
    /\ pc[Timer(s)] = "wait"
    /\ fired' = fired \cup {s}
    /\ StopEnter(Timer(s))

\* DeleteSession: s.Stop() on the Session found.
StopLock(t) ==
    /\ pc[t] = "stop_lock"
    /\ UNCHANGED fired
    /\ StopEnter(t)

\* Stop: s.cancel()
StopCancel(t) ==
    /\ pc[t] = "stop_cancel"
    /\ Cancel(StopTarget(t))
    /\ pc' = [pc EXCEPT ![t] = "stop_remove"]
    /\ UNCHANGED <<sessions, mu, nextId, isClosed, smu, wsURL, removeCalls,
                   procVars, delId, histVars, whipVars, auxVars>>

\* A Stop that returns with Session.mu still held.
DeferredUnlockNever(t) == t

\* Stop: `defer s.mu.Unlock()` leaves the lock with nobody.
DeferredUnlock(t) == NoThread

\* Stop: os.RemoveAll("/tmp/chrome-profile-" + s.ID), then the deferred
\* s.mu.Unlock() and the return.
StopRemove(t) ==
    /\ pc[t] = "stop_remove"
    /\ removeCalls' = [removeCalls EXCEPT ![StopTarget(t)] = @ + 1]
    /\ dir' = [dir EXCEPT ![StopTarget(t)] = FALSE]
    /\ smu' = [smu EXCEPT ![StopTarget(t)] = DeferredUnlock(t)]
    /\ stopReturns' = [stopReturns EXCEPT ![StopTarget(t)] = @ + 1]
    /\ pc' = [pc EXCEPT ![t] = AfterStop(t)]
    /\ UNCHANGED <<sessions, mu, nextId, isClosed, wsURL, ctxDone,
                   cancelCalls, proc, scan, scanURL, delId, startErr, fired,
                   deleted, whipVars, auxVars>>

----------------------------------------------------------------------------
\* The browser subprocess (started by NewSession with --user-data-dir).

\* The browser exits on its own.
ProcExit(s) ==
    /\ proc[s] = "running"
    /\ proc' = [proc EXCEPT ![s] = "exited"]
    /\ UNCHANGED <<sessions, mu, nextId, sessVars, dir, scan, scanURL, pc,
                   delId, histVars, whipVars, auxVars>>

\* exec.CommandContext: once the context is cancelled, the watcher goroutine
\* of os/exec kills the process.
ProcKilled(s) ==
    /\ proc[s] = "running"
    /\ ctxDone[s]
    /\ proc' = [proc EXCEPT ![s] = "exited"]
    /\ UNCHANGED <<sessions, mu, nextId, sessVars, dir, scan, scanURL, pc,
                   delId, histVars, whipVars, auxVars>>

\* The running browser creates (or writes into) its user-data directory.
ProcWriteProfile(s) ==
    /\ proc[s] = "running"
    /\ ~dir[s]
    /\ dir' = [dir EXCEPT ![s] = TRUE]
    /\ UNCHANGED <<sessions, mu, nextId, sessVars, proc, scan, scanURL, pc,
                   delId, histVars, whipVars, auxVars>>

----------------------------------------------------------------------------
\* Session registry (session/manager.go) and its HTTP handlers (main.go)

\* The key CreateSession stores a Session under: s.ID.
StoreKey(s) == s

\* CreateSession after NewSession succeeded: m.sessions[s.ID] = s under the
\* write lock; createSessionHandler then answers 200 with the Session's id.
CreateStore(s) ==
    /\ pc[Creator(s)] = "cs_store"
    /\ mu = NoThread
    /\ sessions' = [k \in DOMAIN sessions \cup {StoreKey(s)} |->
                        IF k = StoreKey(s) THEN s ELSE sessions[k]]
    /\ pc' = [pc EXCEPT ![Creator(s)] = "done"]
    /\ UNCHANGED <<mu, nextId, sessVars, procVars, delId, histVars, whipVars,
                   auxVars>>

\* ProxyCDP up to the dial of the target debugger URL: the dial can succeed
\* only while the browser listens; a failed dial answers 502, otherwise the
\* client connection is upgraded.
DialStatus(s, dialOk) ==
    IF dialOk /\ proc[s] = "running"
    THEN StatusSwitchingProtocols
    ELSE StatusBadGateway

\* cdpProxyHandler: GetSession, 404 when absent, else ProxyCDP to its wsURL.
CdpProxyStatus(id, dialOk) ==
    IF GetSession(id)[2]
    THEN DialStatus(GetSession(id)[1], dialOk)
    ELSE StatusNotFound

\* stopSessionHandler: DeleteSession(id), then w.WriteHeader(200), whether
\* or not DeleteSession had the id in the map.
StopSessionStatus(id) == StatusOK

\* stopSessionHandler, id in the map: DeleteSession takes the write lock and
\* calls Stop on the Session found.
DeleteBegin(id) ==
    /\ mu = NoThread
    /\ id \in DOMAIN sessions
    /\ mu' = Deleter
    /\ delId' = id
    /\ pc' = [pc EXCEPT ![Deleter] = "stop_lock"]
    /\ UNCHANGED <<sessions, nextId, sessVars, procVars, histVars, whipVars,
                   auxVars>>

\* A DeleteSession that stops the Session and forgets the delete.
MapDeleteNothing(m, id) == m

\* The map DeleteSession leaves after delete(m.sessions, id).
MapDelete(m, id) == [k \in DOMAIN m \ {id} |-> m[k]]

\* DeleteSession after Stop returned: delete(m.sessions, id) and the
\* deferred unlock; the handler answers.
DeleteFinish ==
    /\ pc[Deleter] = "del_delete"
    /\ sessions' = MapDelete(sessions, delId)
    /\ mu' = NoThread
    /\ deleted' = deleted \cup {delId}
    /\ delId' = 0
    /\ pc' = [pc EXCEPT ![Deleter] = "none"]
    /\ UNCHANGED <<nextId, sessVars, procVars, startErr, fired, stopReturns,
                   whipVars, auxVars>>

----------------------------------------------------------------------------
\* WHIP surface: whipHandler and the peer-connection callbacks (whip.go)

\* A gate that lets every Content-Type through.
ContentTypeOKAny(ct) == TRUE

\* whipHandler: `contentType != "application/sdp"` rejects the request.
ContentTypeOK(ct) == ct = SDP

\* whipHandler up to the Content-Type check: the status it rejects a POST
\* for session id with, 0 when the request passes.  A rejected request has
\* touched nothing.
WhipGate(id, ct) ==
    IF ~GetSession(id)[2] THEN StatusNotFound
    ELSE IF ~ContentTypeOK(ct) THEN StatusBadRequest
    ELSE 0

\* whipHandler past its gates: webrtc.NewPeerConnection succeeded, a fresh
\* resource id is drawn and both callbacks are registered.  (When
\* NewPeerConnection fails the handler answers 500 and has touched nothing.)
WhipPostCall(id, ct) ==
    /\ nextRes < MaxResources
    /\ CanRLock
    /\ WhipGate(id, ct) = 0
    /\ LET r == nextRes + 1 IN
        /\ nextRes' = r
        /\ whipReq' = [whipReq EXCEPT ![r] = [sid |-> id, ct |-> ct]]
        /\ pcState' = [pcState EXCEPT ![r] = "new"]
        /\ pc' = [pc EXCEPT ![Poster(r)] = "negotiate"]
    /\ UNCHANGED <<sessions, mu, nextId, sessVars, procVars, delId, histVars,
                   whipResources, whipResp>>

\* A POST /whip whose body is left open.
WhipPostBegin(id, ct) == WhipPostCall(id, ct) /\ UNCHANGED auxVars

\* Bodies of POST /whip, as byte sequences: the first bytes of "v=0v=0...".
OfferByte(i) == <<118, 61, 48>>[((i - 1) % 3) + 1]
OfferBodies == {[i \in 1..n |-> OfferByte(i)] : n \in 0..MaxOfferLen}

\* r.ContentLength of a request whose transfer is chunked.
UnknownLength == -1

\* r.ContentLength: the declared length of the body, -1 when unknown.
ContentLengthOf(body, chunked) == IF chunked THEN UnknownLength ELSE Len(body)

\* make([]byte, r.ContentLength) panics for a negative length.
MakeSlicePanics(cl) == cl < 0

\* How many bytes the one r.Body.Read(offerSDP) can bring for a buffer of n
\* bytes: what has arrived of the body, at least one byte when there is any.
FirstReads(body, n) ==
    LET most == IF Len(body) < n THEN Len(body) ELSE n
    IN  IF most = 0 THEN {0} ELSE 1..most

\* offerSDP after make([]byte, cl) and one Read that brought k bytes: those
\* bytes, then the zeros make() put there.
ReadOffer(body, cl, k) == SubSeq(body, 1, k) \o [i \in 1..(cl - k) |-> 0]

\* whipHandler up to the peer connection, for a body delivered with a first
\* read of k bytes: the slice is made (a panic ends the handler; net/http
\* recovers it and drops the connection), one Read fills it and string() of
\* the slice is the offer for SetRemoteDescription.
WhipPostOffer(id, ct, body, chunked, k) ==
    LET cl == ContentLengthOf(body, chunked)
        req == [body |-> body, contentLength |-> cl, first |-> k,
                sent |-> TRUE]
    IN  IF MakeSlicePanics(cl)
        THEN /\ CanRLock
             /\ WhipGate(id, ct) = 0
             /\ k = 0
             /\ whipPanic = NoOfferReq
             /\ whipPanic' = req
             /\ UNCHANGED <<sessions, mu, nextId, sessVars, procVars, pc, delId,
                            histVars, whipVars, whipDelVars, pumpVars,
                            proxyVars, urlVars, offerReq, offer, chanVars,
                            wireVars>>
        ELSE /\ k \in FirstReads(body, cl)
             /\ WhipPostCall(id, ct)
             /\ offerReq' = [offerReq EXCEPT ![nextRes + 1] = req]
             /\ offer' = [offer EXCEPT ![nextRes + 1] = ReadOffer(body, cl, k)]
             /\ UNCHANGED <<whipDelVars, pumpVars, proxyVars, urlVars,
                            whipPanic, chanVars, wireVars>>

\* What whipHandler writes when a step fails: status and nothing else.
ErrorReply(status) ==
    [status |-> status, contentType |-> "", location |-> <<>>, answerOf |-> 0]

\* SetRemoteDescription fails (400), or CreateAnswer or SetLocalDescription
\* fails (500): the handler answers and returns.
WhipNegotiateFail(r) ==
    /\ pc[Poster(r)] = "negotiate"
    /\ \E status \in {StatusBadRequest, StatusInternalServerError} :
        whipResp' = [whipResp EXCEPT ![r] = ErrorReply(status)]
    /\ pc' = [pc EXCEPT ![Poster(r)] = "done"]
    /\ UNCHANGED <<sessions, mu, nextId, sessVars, procVars, delId, histVars,
                   whipResources, nextRes, whipReq, pcState, auxVars>>

\* SetRemoteDescription, CreateAnswer and SetLocalDescription succeed; the
\* handler waits for ICE gathering.
WhipNegotiate(r) ==
    /\ pc[Poster(r)] = "negotiate"
    /\ pc' = [pc EXCEPT ![Poster(r)] = "ice_wait"]
    /\ UNCHANGED <<sessions, mu, nextId, sessVars, procVars, delId, histVars,
                   whipVars, auxVars>>

\* The WHIPResource whipHandler builds: its id, the peer connection (named
\* after the handler that allocated it) and the session id of the request.
NewResource(r) ==
    [ID |-> r, PeerConnection |-> r, SessionID |-> whipReq[r].sid]

\* The key whipHandler stores the resource under: resourceID.
ResourceKey(r) == r

\* A select without the timer case.
IceCapNever(r) == FALSE

\* `case <-time.After(3 * time.Second)`: the timer fires whatever the ICE
\* agent does.
IceCap(r) == TRUE

\* Gathering completes or the 3-second cap passes; the handler stores the
\* resource: whipResources[resourceID] = resource.
WhipStore(r) ==
    /\ pc[Poster(r)] = "ice_wait"
    /\ gathered[r] \/ IceCap(r)
    /\ whipResources' = [k \in DOMAIN whipResources \cup {ResourceKey(r)} |->
                            IF k = ResourceKey(r) THEN NewResource(r)
                            ELSE whipResources[k]]
    /\ pc' = [pc EXCEPT ![Poster(r)] = "respond"]
    /\ UNCHANGED <<sessions, mu, nextId, sessVars, procVars, delId, histVars,
                   nextRes, whipReq, pcState, whipResp, auxVars>>

\* A Location header naming the session where the resource belongs.
WhipLocationSwapped(sid, rid) == <<"/sessions/", rid, "/whip/", sid>>

\* fmt.Sprintf("/sessions/%s/whip/%s", sessionID, resourceID)
WhipLocation(sid, rid) == <<"/sessions/", sid, "/whip/", rid>>

\* whipHandler answers 201 with the answer SDP of its peer connection.
WhipRespond(r) ==
    /\ pc[Poster(r)] = "respond"
    /\ whipResp' = [whipResp EXCEPT ![r] =
                        [status |-> StatusCreated,
                         contentType |-> SDP,
                         location |-> WhipLocation(whipReq[r].sid, r),
                         answerOf |-> r]]
    /\ pc' = [pc EXCEPT ![Poster(r)] = "done"]
    /\ UNCHANGED <<sessions, mu, nextId, sessVars, procVars, delId, histVars,
                   whipResources, nextRes, whipReq, pcState, auxVars>>

\* ICE and DTLS run once both descriptions are set.
TransportsStarted(r) ==
    \/ pc[Poster(r)] \in {"ice_wait", "respond"}
    \/ pc[Poster(r)] = "done" /\ whipResp[r].status = StatusCreated

\* The connection states the WebRTC stack can move a peer connection to.
NextPcStates(r) ==
    CASE pcState[r] = "new" ->
            IF TransportsStarted(r) THEN {"connecting"} ELSE {}
      [] pcState[r] = "connecting" -> {"connected", "failed"}
      [] pcState[r] = "connected" -> {"disconnected", "failed"}
      [] pcState[r] = "disconnected" -> {"connected", "failed"}
      [] OTHER -> {}

\* OnConnectionStateChange: failed and closed are the states that purge.
PurgesResource(state) == state \in {"failed", "closed"}

\* The peer connection of r changes state and the OnConnectionStateChange
\* callback runs: on failed or closed, delete(whipResources, resourceID).
ConnectionStateChange(r) ==
    /\ \E state \in NextPcStates(r) :
        /\ pcState' = [pcState EXCEPT ![r] = state]
        /\ whipResources' =
            IF PurgesResource(state) THEN MapDelete(whipResources, r)
            ELSE whipResources
    /\ UNCHANGED <<sessions, mu, nextId, sessVars, procVars, pc, delId,
                   histVars, nextRes, whipReq, whipResp, auxVars>>

----------------------------------------------------------------------------
\* WHIP resource operations: whipResourceHandler (whip.go)

\* A lookup that finds every resource id.
WhipLookupAlways(rid) == TRUE

\* whipResourceHandler: `resource, ok := whipResources[resourceID]` under the
\* read lock.
WhipLookup(rid) == rid \in DOMAIN whipResources

\* whipResourceHandler for DELETE: 404 when the lookup misses (the handler
\* returns and has touched nothing), else 200 once the peer connection is
\* closed and the entry deleted.
WhipDeleteStatus(rid) == IF WhipLookup(rid) THEN StatusOK ELSE StatusNotFound

\* A DELETE handler looks resource r up and finds it.
WhipDeleteFind(r, n) ==
    /\ pc[Remover(r, n)] = "none"
    /\ WhipDeleteStatus(r) = StatusOK
    /\ pc' = [pc EXCEPT ![Remover(r, n)] = "wd_lock"]
    /\ UNCHANGED <<sessions, mu, nextId, sessVars, procVars, delId, histVars,
                   whipVars, auxVars>>

\* resource.mu.Lock()
WhipDeleteLock(r, n) ==
    /\ pc[Remover(r, n)] = "wd_lock"
    /\ rmu[r] = NoThread
    /\ rmu' = [rmu EXCEPT ![r] = Remover(r, n)]
    /\ pc' = [pc EXCEPT ![Remover(r, n)] = "wd_close"]
    /\ UNCHANGED <<sessions, mu, nextId, sessVars, procVars, delId, histVars,
                   whipVars, closeCalls, closedCb, delOK, patchResp, gathered,
                   pumpVars, proxyVars, urlVars, extVars>>

\* resource.PeerConnection.Close(), then resource.mu.Unlock().  Close on a
\* connection that is already closed changes nothing; otherwise the state
\* becomes closed and the stack schedules the state-change callback.
WhipDeleteClose(r, n) ==
    /\ pc[Remover(r, n)] = "wd_close"
    /\ closeCalls' = [closeCalls EXCEPT ![r] = @ + 1]
    /\ IF pcState[r] = "closed"
       THEN UNCHANGED <<pcState, closedCb>>
       ELSE /\ pcState' = [pcState EXCEPT ![r] = "closed"]
            /\ closedCb' = [closedCb EXCEPT ![r] = TRUE]
    /\ rmu' = [rmu EXCEPT ![r] = NoThread]
    /\ pc' = [pc EXCEPT ![Remover(r, n)] = "wd_remove"]
    /\ UNCHANGED <<sessions, mu, nextId, sessVars, procVars, delId, histVars,
                   whipResources, nextRes, whipReq, whipResp, delOK, patchResp,
                   gathered, pumpVars, proxyVars, urlVars, extVars>>

\* delete(whipResources, resourceID) under the write lock, then
\* w.WriteHeader(http.StatusOK).
WhipDeleteRemove(r, n) ==
    /\ pc[Remover(r, n)] = "wd_remove"
    /\ whipResources' = MapDelete(whipResources, r)
    /\ delOK' = [delOK EXCEPT ![r] = @ + 1]
    /\ pc' = [pc EXCEPT ![Remover(r, n)] = "none"]
    /\ UNCHANGED <<sessions, mu, nextId, sessVars, procVars, delId, histVars,
                   nextRes, whipReq, pcState, whipResp, rmu, closeCalls,
                   closedCb, patchResp, gathered, pumpVars, proxyVars,
                   urlVars, extVars>>

\* The OnConnectionStateChange callback runs for the closed state that
\* Close() produced.
ClosedCallback(r) ==
    /\ closedCb[r]
    /\ closedCb' = [closedCb EXCEPT ![r] = FALSE]
    /\ whipResources' =
        IF PurgesResource("closed") THEN MapDelete(whipResources, r)
        ELSE whipResources
    /\ UNCHANGED <<sessions, mu, nextId, sessVars, procVars, pc, delId,
                   histVars, nextRes, whipReq, pcState, whipResp, rmu,
                   closeCalls, delOK, patchResp, gathered, pumpVars, proxyVars,
                   urlVars, extVars>>

\* The methods the router lets through to whipResourceHandler.
ResourceMethods == {"PATCH", "DELETE"}

\* A PATCH answered 200.
PatchReplyOK == StatusOK

\* whipResourceHandler: w.WriteHeader(http.StatusNoContent)
PatchReply == StatusNoContent

\* whipResourceHandler for a request to /sessions/{id}/whip/{rid}: only
\* resourceId is read of the path; 404 when the lookup misses, else 204 for
\* PATCH and, once the connection is closed and the entry deleted, 200 for
\* DELETE.
WhipResourceStatus(id, rid, method) ==
    IF ~WhipLookup(rid) THEN StatusNotFound
    ELSE IF method = "PATCH" THEN PatchReply
    ELSE StatusOK

\* whipResourceHandler for PATCH: the lookup under the read lock and the
\* answer (one PATCH request is followed).
WhipPatch(id, rid) ==
    /\ patchResp = NoPatch
    /\ patchResp' = [rid |-> rid,
                     status |-> WhipResourceStatus(id, rid, "PATCH")]
    /\ UNCHANGED <<sessions, mu, nextId, sessVars, procVars, pc, delId,
                   histVars, whipVars, rmu, closeCalls, closedCb, delOK,
                   gathered, pumpVars, proxyVars, urlVars, extVars>>

\* The ICE agent of r finishes gathering candidates.
IceGathered(r) ==
    /\ TransportsStarted(r)
    /\ ~gathered[r]
    /\ gathered' = [gathered EXCEPT ![r] = TRUE]
    /\ UNCHANGED <<sessions, mu, nextId, sessVars, procVars, pc, delId,
                   histVars, whipVars, rmu, closeCalls, closedCb, delOK,
                   patchResp, pumpVars, proxyVars, urlVars, extVars>>

----------------------------------------------------------------------------
\* Inbound data channels: the OnDataChannel callback of whipHandler (whip.go)

\* Labels the peer gives the data channels it creates.
Labels == {"screencast", "Screencast", "control"}

\* A callback that takes every channel for the screencast channel.
IsScreencastAny(label) == TRUE

\* OnDataChannel: `d.Label() == "screencast"`
IsScreencast(label) == label = "screencast"

\* The peer has created a data channel on the connection of r and the
\* OnDataChannel callback runs: for the screencast label the channel is
\* recorded on the resource under resource.mu and its OnOpen and OnClose
\* handlers are set; any other channel is left alone.
OnDataChannel(r, label) ==
    /\ pcState[r] = "connected"
    /\ Len(chans[r]) < MaxChannels
    /\ chans' = [chans EXCEPT ![r] =
                    Append(@, [label |-> label, state |-> "announced",
                               handlers |-> IsScreencast(label),
                               pumps |-> 0])]
    /\ IF IsScreencast(label)
       THEN /\ rmu[r] = NoThread
            /\ recorded' = [recorded EXCEPT ![r] = Len(chans[r]) + 1]
       ELSE UNCHANGED recorded
    /\ UNCHANGED <<sessions, mu, nextId, sessVars, procVars, pc, delId,
                   histVars, whipVars, whipDelVars, pumpVars, proxyVars,
                   urlVars, offerVars, wireVars>>

\* Channel c of r opens (the stack reports the open of a channel once):
\* the OnOpen handler, when set, starts a Pump in a goroutine of its own.
ChannelOpen(r, c) ==
    /\ c \in DOMAIN chans[r]
    /\ chans[r][c].state = "announced"
    /\ pcState[r] = "connected"
    /\ chans' = [chans EXCEPT ![r][c] =
                    [@ EXCEPT !.state = "open",
                              !.pumps = IF chans[r][c].handlers
                                        THEN @ + 1 ELSE @]]
    /\ UNCHANGED <<sessions, mu, nextId, sessVars, procVars, pc, delId,
                   histVars, whipVars, whipDelVars, pumpVars, proxyVars,
                   urlVars, offerVars, recorded, wireVars>>

\* Channel c of r closes: the OnClose handler, when set, logs.
ChannelClose(r, c) ==
    /\ c \in DOMAIN chans[r]
    /\ chans[r][c].state = "open"
    /\ chans' = [chans EXCEPT ![r][c].state = "closed"]
    /\ UNCHANGED <<sessions, mu, nextId, sessVars, procVars, pc, delId,
                   histVars, whipVars, whipDelVars, pumpVars, proxyVars,
                   urlVars, offerVars, recorded, wireVars>>

----------------------------------------------------------------------------
\* The screencast Pump: streamScreencastToDataChannel (whip.go)

\* const chunkSize = 60000
ChunkSize == 60000

\* Decoded payload lengths of the frames the browser emits.
PayloadSizes == {0, ChunkSize, ChunkSize + 1}

\* Screencast session ids the browser puts into its frame events.
ScreencastIds == {1, 2}

\* Page.screencastFrame events: fault tells what fails to decode ("params":
\* json.Unmarshal of msg.Params, "base64": DecodeString of params.Data);
\* size is the decoded length of the payload, a slice data[0:size].
FrameEvents ==
    [fault : {"none"}, size : PayloadSizes, sessionId : ScreencastIds]
        \cup [fault : {"params", "base64"}, size : {0}, sessionId : {1}]

\* frameCount: the number of frame events the Pump has consumed.
FrameCount(r) ==
    Cardinality({p \in DOMAIN pumpLog[r] : pumpLog[r][p].ev = "frame"})

Logged(r, entry) == pumpLog' = [pumpLog EXCEPT ![r] = Append(@, entry)]

\* The Session whose debugger URL the Pump of r was started with.
PumpSession(r) == whipReq[r].sid

\* The page websocket of the Pump works while the browser runs.
BrowserUp(r) == proc[PumpSession(r)] = "running"

\* dc.SendText / dc.Send succeed on an open channel of a live connection.
CanSend(r) ==
    dcState[r] = "open" /\ pcState[r] \in {"connected", "disconnected"}

\* OnDataChannel for the channel labelled screencast, then its OnOpen: the
\* channel is recorded on the resource under resource.mu and the Pump is
\* started in a goroutine of its own.
DataChannelOpen(r) ==
    /\ pcState[r] = "connected"
    /\ dcState[r] = "none"
    /\ rmu[r] = NoThread
    /\ dcState' = [dcState EXCEPT ![r] = "open"]
    /\ pc' = [pc EXCEPT ![Pump(r)] = "start"]
    /\ UNCHANGED <<sessions, mu, nextId, sessVars, procVars, delId, histVars,
                   whipVars, whipDelVars, cur, pumpLog, conn, tickVars,
                   proxyVars, urlVars, extVars>>

\* The peer closes the channel; OnClose logs and does nothing else.
DataChannelClose(r) ==
    /\ dcState[r] = "open"
    /\ dcState' = [dcState EXCEPT ![r] = "closed"]
    /\ UNCHANGED <<sessions, mu, nextId, sessVars, procVars, pc, delId,
                   histVars, whipVars, whipDelVars, cur, pumpLog, conn, tickVars,
                   proxyVars, urlVars, extVars>>

\* The Pump returns: the deferred conn.Close() runs.
PumpReturn(r) ==
    /\ pc' = [pc EXCEPT ![Pump(r)] = "ended"]
    /\ conn' = [conn EXCEPT ![r] = "closed"]

\* The Pump up to its read loop.  Target discovery or the dial of the page
\* target fails: the Pump returns and has no websocket.  The dial succeeds
\* (the browser runs) and the startScreencast write fails: the Pump
\* returns, the deferred conn.Close() runs and no ticker was started.
\* Else the automation goroutine is started and the read loop entered.
PumpStart(r) ==
    /\ pc[Pump(r)] = "start"
    /\ \/ /\ pc' = [pc EXCEPT ![Pump(r)] = "ended"]
          /\ UNCHANGED <<conn, ticker>>
       \/ /\ BrowserUp(r)
          /\ PumpReturn(r)
          /\ UNCHANGED ticker
       \/ /\ BrowserUp(r)
          /\ pc' = [pc EXCEPT ![Pump(r)] = "read"]
          /\ conn' = [conn EXCEPT ![r] = "open"]
          /\ ticker' = [ticker EXCEPT ![r] = "running"]
    /\ UNCHANGED <<sessions, mu, nextId, sessVars, procVars, delId, histVars,
                   whipVars, whipDelVars, dcState, cur, pumpLog, ticks,
                   evalAfterClose, proxyVars, urlVars, extVars>>

\* conn.ReadMessage() fails once the browser is gone: break, and the
\* deferred conn.Close() runs.
PumpReadError(r) ==
    /\ pc[Pump(r)] = "read"
    /\ ~BrowserUp(r)
    /\ PumpReturn(r)
    /\ UNCHANGED <<sessions, mu, nextId, sessVars, procVars, delId, histVars,
                   whipVars, whipDelVars, dcState, cur, pumpLog, tickVars,
                   proxyVars, urlVars, extVars>>

\* Where the Pump goes after the frame-start of a payload of n bytes, and
\* after the chunk that started at offset i - ChunkSize.
AfterSend(i, n) == IF i < n THEN "chunk" ELSE "ack"

\* An event none of whose parts fails to decode.
UndecodableNever(ev) == FALSE

\* json.Unmarshal of msg.Params or base64 DecodeString returns an error.
Undecodable(ev) == ev.fault # "none"

\* The Pump reads Page.screencastFrame event ev (any other message is
\* dropped and changes nothing).  Params or payload that fail to decode:
\* `continue`.  Else the frame-start goes out with dc.SendText; when that
\* fails: `break` out of the read loop.
PumpRead(r, ev) ==
    /\ pc[Pump(r)] = "read"
    /\ BrowserUp(r)
    /\ FrameCount(r) < MaxFrames
    /\ ev \in FrameEvents
    /\ LET k == FrameCount(r) + 1
            consumed == [ev |-> "frame", frame |-> k,
                         sessionId |-> ev.sessionId]
        IN  IF Undecodable(ev)
            THEN /\ pumpLog' = [pumpLog EXCEPT ![r] = Append(@, consumed)]
                 /\ UNCHANGED <<pc, cur, conn>>
            ELSE IF CanSend(r)
            THEN /\ pumpLog' = [pumpLog EXCEPT ![r] =
                        @ \o <<consumed,
                               [ev |-> "text", frame |-> k, size |-> ev.size]>>]
                 /\ cur' = [cur EXCEPT ![r] =
                        [size |-> ev.size, sessionId |-> ev.sessionId,
                         i |-> 0]]
                 /\ pc' = [pc EXCEPT ![Pump(r)] = AfterSend(0, ev.size)]
                 /\ UNCHANGED conn
            ELSE /\ pumpLog' = [pumpLog EXCEPT ![r] =
                        @ \o <<consumed, [ev |-> "senderr", frame |-> k]>>]
                 /\ PumpReturn(r)
                 /\ UNCHANGED cur
    /\ UNCHANGED <<sessions, mu, nextId, sessVars, procVars, delId, histVars,
                   whipVars, whipDelVars, dcState, tickVars, proxyVars,
                   urlVars>>

\* The Pump reads a frame event, whichever the browser sent.
PumpReadFrame(r) ==
    \E ev \in FrameEvents : PumpRead(r, ev) /\ UNCHANGED extVars

\* A chunk end that is not clamped to the payload.
ChunkEndUnclamped(i, n) == i + ChunkSize

\* end := i + chunkSize; if end > len(data) { end = len(data) }
ChunkEnd(i, n) == IF i + ChunkSize > n THEN n ELSE i + ChunkSize

\* One round of the chunk loop: dc.Send(data[i:end]), i += chunkSize.  When
\* the send fails: `break`, which leaves the chunk loop only, so the Pump
\* goes on to acknowledge the frame.
PumpChunk(r) ==
    /\ pc[Pump(r)] = "chunk"
    /\ LET k == FrameCount(r)
           i == cur[r].i
       IN  IF CanSend(r)
           THEN /\ Logged(r, [ev |-> "binary", frame |-> k, from |-> i,
                              to |-> ChunkEnd(i, cur[r].size)])
                /\ cur' = [cur EXCEPT ![r].i = i + ChunkSize]
                /\ pc' = [pc EXCEPT ![Pump(r)] =
                            AfterSend(i + ChunkSize, cur[r].size)]
           ELSE /\ Logged(r, [ev |-> "senderr", frame |-> k])
                /\ pc' = [pc EXCEPT ![Pump(r)] = "ack"]
                /\ UNCHANGED cur
    /\ UNCHANGED <<sessions, mu, nextId, sessVars, procVars, delId, histVars,
                   whipVars, whipDelVars, dcState, conn, tickVars, proxyVars,
                   urlVars, extVars>>

\* conn.WriteJSON(Page.screencastFrameAck{sessionId: params.SessionID})
\* under writeMu; a write error is logged and the loop goes on.
PumpAck(r) ==
    /\ pc[Pump(r)] = "ack"
    /\ Logged(r, [ev |-> "ack", frame |-> FrameCount(r),
                  sessionId |-> cur[r].sessionId, ok |-> BrowserUp(r)])
    /\ cur' = [cur EXCEPT ![r] = NoFrame]
    /\ pc' = [pc EXCEPT ![Pump(r)] = "read"]
    /\ UNCHANGED <<sessions, mu, nextId, sessVars, procVars, delId, histVars,
                   whipVars, whipDelVars, dcState, conn, tickVars, proxyVars,
                   urlVars, extVars>>

\* A websocket whose writes never fail.
WriteFailsNever(r) == FALSE

\* conn.WriteJSON after conn.Close() returns an error.
WriteFails(r) == conn[r] = "closed"

\* The automation goroutine at a tick: writeMu.Lock(), conn.WriteJSON of a
\* Runtime.evaluate command, writeMu.Unlock(); on a write error it returns.
\* The write fails on a closed websocket and can fail once the browser is
\* gone.
TickerTick(r) ==
    /\ ticker[r] = "running"
    /\ \/ /\ ~WriteFails(r)
          /\ ticks[r] < MaxTicks
          /\ ticks' = [ticks EXCEPT ![r] = @ + 1]
          /\ evalAfterClose' =
                [evalAfterClose EXCEPT ![r] = @ \/ conn[r] = "closed"]
          /\ UNCHANGED ticker
       \/ /\ WriteFails(r) \/ ~BrowserUp(r)
          /\ ticker' = [ticker EXCEPT ![r] = "done"]
          /\ UNCHANGED <<ticks, evalAfterClose>>
    /\ UNCHANGED <<sessions, mu, nextId, sessVars, procVars, pc, delId,
                   histVars, whipVars, whipDelVars, dcState, cur, pumpLog,
                   conn, proxyVars, urlVars, extVars>>

----------------------------------------------------------------------------
\* The Pump step by step: target discovery, dial, bootstrap writes, the
\* writer mutex and the dispatch of the read loop (whip.go)

\* Entries of the browser's /json list: type and webSocketDebuggerUrl.
TargetEntries ==
    { [type |-> "page", url |-> "ws://page1"],
      [type |-> "page", url |-> ""],
      [type |-> "iframe", url |-> "ws://frame"],
      [type |-> "page", url |-> "ws://page2"] }

RECURSIVE SeqsUpTo(_, _)
SeqsUpTo(S, n) ==
    IF n = 0 THEN {<<>>}
    ELSE LET shorter == SeqsUpTo(S, n - 1)
         IN  shorter \cup {Append(q, x) : q \in shorter, x \in S}

\* What http.Get and the decode of the body can bring: an error of either,
\* or the decoded list.
Discoveries ==
    [outcome : {"fetch_error", "decode_error"}, list : {<<>>}]
        \cup [outcome : {"ok"}, list : SeqsUpTo(TargetEntries, MaxTargets)]

\* A selection that looks at the type only.
IsPageTargetAnyURL(t) == t.type = "page"

\* `t.Type == "page" && t.WebSocketDebuggerURL != ""`
IsPageTarget(t) == t.type = "page" /\ t.url # ""

\* The loop over targets from index i on: pageWSURL is the URL of the first
\* entry that passes, "" when none does.
RECURSIVE ScanTargets(_, _)
ScanTargets(list, i) ==
    IF i > Len(list) THEN ""
    ELSE IF IsPageTarget(list[i]) THEN list[i].url
    ELSE ScanTargets(list, i + 1)

PageWSURL(list) == ScanTargets(list, 1)

\* The Pump queries http://127.0.0.1:<port>/json (answered only by a running
\* browser): on a fetch error, a decode error or `pageWSURL == ""` it
\* returns; else the dial comes next.
PumpDiscover(r, d) ==
    /\ pc[Pump(r)] = "start"
    /\ d.outcome = "ok" => BrowserUp(r)
    /\ targets' = [targets EXCEPT ![r] = d]
    /\ pc' = [pc EXCEPT ![Pump(r)] =
                IF d.outcome # "ok" \/ PageWSURL(d.list) = ""
                THEN "ended" ELSE "dial"]
    /\ UNCHANGED <<sessions, mu, nextId, sessVars, procVars, delId, histVars,
                   whipVars, whipDelVars, pumpVars, proxyVars, urlVars,
                   offerVars, chanVars, dialled, cdpOut, writeMu, writing,
                   cdpIn>>

\* websocket.DefaultDialer.Dial(pageWSURL, nil): on an error the Pump
\* returns; else conn is open and its Close deferred.
PumpDial(r) ==
    /\ pc[Pump(r)] = "dial"
    /\ dialled' = [dialled EXCEPT ![r] =
                        Append(@, PageWSURL(targets[r].list))]
    /\ \/ /\ pc' = [pc EXCEPT ![Pump(r)] = "ended"]
          /\ UNCHANGED conn
       \/ /\ BrowserUp(r)
          /\ pc' = [pc EXCEPT ![Pump(r)] = "boot"]
          /\ conn' = [conn EXCEPT ![r] = "open"]
    /\ UNCHANGED <<sessions, mu, nextId, sessVars, procVars, delId, histVars,
                   whipVars, whipDelVars, dcState, cur, pumpLog, tickVars,
                   proxyVars, urlVars, offerVars, chanVars, targets, cdpOut,
                   writeMu, writing, cdpIn>>

\* The URL the bootstrap navigates to.
BootstrapURL == "https://www.google.com"

\* A bootstrap that starts the screencast before it navigates.
BootCommandsStartFirst ==
    <<"Page.enable", "Page.bringToFront", "Page.startScreencast",
      "Page.navigate">>

\* The commands the Pump writes before its read loop, in program order.
BootCommands ==
    <<"Page.enable", "Page.bringToFront", "Page.navigate",
      "Page.startScreencast">>

\* A WriteJSON call on the Pump's websocket: the method, the URL of a
\* Page.navigate and whether the write succeeded.
Written(method, ok) ==
    [method |-> method,
     url |-> IF method = "Page.navigate" THEN BootstrapURL ELSE "",
     ok |-> ok]

\* How the write of a bootstrap command can end.  The first three errors
\* are dropped by the Pump and are followed as the browser decides them;
\* the write of Page.startScreencast can fail at any time.
WriteOutcomes(r, method) ==
    IF method = "Page.startScreencast" /\ BrowserUp(r) THEN {TRUE, FALSE}
    ELSE {BrowserUp(r)}

\* The Pump enters conn.WriteJSON for its next bootstrap command; none of
\* these writes takes writeMu.
BootWriteBegin(r) ==
    /\ pc[Pump(r)] = "boot"
    /\ pc' = [pc EXCEPT ![Pump(r)] = "boot_w"]
    /\ writing' = [writing EXCEPT ![r] = @ \cup {"pump"}]
    /\ UNCHANGED <<sessions, mu, nextId, sessVars, procVars, delId, histVars,
                   whipVars, whipDelVars, pumpVars, proxyVars, urlVars,
                   offerVars, chanVars, targets, dialled, cdpOut, writeMu,
                   cdpIn>>

\* That WriteJSON returns.  The error of the first three writes is dropped;
\* when the write of Page.startScreencast fails the Pump returns, else it
\* starts the automation goroutine and enters its read loop.
BootWriteEnd(r) ==
    /\ pc[Pump(r)] = "boot_w"
    /\ LET n == Len(cdpOut[r]) + 1 IN
        \E ok \in WriteOutcomes(r, BootCommands[n]) :
            /\ cdpOut' = [cdpOut EXCEPT ![r] =
                            Append(@, Written(BootCommands[n], ok))]
            /\ IF BootCommands[n] # "Page.startScreencast"
               THEN /\ pc' = [pc EXCEPT ![Pump(r)] = "boot"]
                    /\ UNCHANGED <<conn, ticker>>
               ELSE IF ok
               THEN /\ pc' = [pc EXCEPT ![Pump(r)] = "read"]
                    /\ ticker' = [ticker EXCEPT ![r] = "running"]
                    /\ UNCHANGED conn
               ELSE /\ PumpReturn(r)
                    /\ UNCHANGED ticker
    /\ writing' = [writing EXCEPT ![r] = @ \ {"pump"}]
    /\ UNCHANGED <<sessions, mu, nextId, sessVars, procVars, delId, histVars,
                   whipVars, whipDelVars, dcState, cur, pumpLog, ticks,
                   evalAfterClose, proxyVars, urlVars, offerVars, chanVars,
                   targets, dialled, writeMu, cdpIn>>

\* The read loop reads Page.screencastFrame event ev.
PumpReadMessage(r, ev) ==
    /\ PumpRead(r, ev)
    /\ cdpIn' = [cdpIn EXCEPT ![r] =
                    Append(@, [kind |-> "frame", fault |-> ev.fault,
                               frame |-> FrameCount(r) + 1])]
    /\ UNCHANGED <<offerVars, chanVars, targets, dialled, cdpOut, writeMu,
                   writing>>

\* Debugger messages that are no frame events: bytes json.Unmarshal rejects,
\* the reply to a command (no method) and an event of another method.
OtherMessages == {"garbage", "reply", "event"}

\* The number of such messages the Pump has read.
OtherCount(r) ==
    Cardinality({i \in DOMAIN cdpIn[r] : cdpIn[r][i].kind # "frame"})

\* The read loop reads one of them: `continue` for bytes that do not parse;
\* a message of another method is logged; neither branch of the loop body
\* that sends or writes is entered.
PumpReadOther(r, kind) ==
    /\ pc[Pump(r)] = "read"
    /\ BrowserUp(r)
    /\ OtherCount(r) < MaxDropped
    /\ cdpIn' = [cdpIn EXCEPT ![r] =
                    Append(@, [kind |-> kind, fault |-> "none", frame |-> 0])]
    /\ UNCHANGED <<sessions, mu, nextId, sessVars, procVars, pc, delId,
                   histVars, whipVars, whipDelVars, pumpVars, proxyVars,
                   urlVars, offerVars, chanVars, targets, dialled, cdpOut,
                   writeMu, writing>>

\* A mutex that lets everybody in.
WriteMuAlwaysFree(r) == TRUE

\* writeMu.Lock() returns when nobody holds the mutex.
WriteMuFree(r) == writeMu[r] = "none"

\* The Pump takes writeMu and enters conn.WriteJSON for the ack.
AckWriteBegin(r) ==
    /\ pc[Pump(r)] = "ack"
    /\ WriteMuFree(r)
    /\ writeMu' = [writeMu EXCEPT ![r] = "pump"]
    /\ writing' = [writing EXCEPT ![r] = @ \cup {"pump"}]
    /\ pc' = [pc EXCEPT ![Pump(r)] = "ack_w"]
    /\ UNCHANGED <<sessions, mu, nextId, sessVars, procVars, delId, histVars,
                   whipVars, whipDelVars, pumpVars, proxyVars, urlVars,
                   offerVars, chanVars, targets, dialled, cdpOut, cdpIn>>

\* That WriteJSON returns and writeMu is released; a write error is logged
\* and the loop goes on.
AckWriteEnd(r) ==
    /\ pc[Pump(r)] = "ack_w"
    /\ Logged(r, [ev |-> "ack", frame |-> FrameCount(r),
                  sessionId |-> cur[r].sessionId, ok |-> BrowserUp(r)])
    /\ cdpOut' = [cdpOut EXCEPT ![r] =
                    Append(@, Written("Page.screencastFrameAck",
                                      BrowserUp(r)))]
    /\ cur' = [cur EXCEPT ![r] = NoFrame]
    /\ writeMu' = [writeMu EXCEPT ![r] = "none"]
    /\ writing' = [writing EXCEPT ![r] = @ \ {"pump"}]
    /\ pc' = [pc EXCEPT ![Pump(r)] = "read"]
    /\ UNCHANGED <<sessions, mu, nextId, sessVars, procVars, delId, histVars,
                   whipVars, whipDelVars, dcState, conn, tickVars, proxyVars,
                   urlVars, offerVars, chanVars, targets, dialled, cdpIn>>

\* The automation goroutine at a tick takes writeMu and enters
\* conn.WriteJSON for its Runtime.evaluate command.
TickWriteBegin(r) ==
    /\ ticker[r] = "running"
    /\ ticks[r] < MaxTicks \/ WriteFails(r) \/ ~BrowserUp(r)
    /\ WriteMuFree(r)
    /\ writeMu' = [writeMu EXCEPT ![r] = "ticker"]
    /\ writing' = [writing EXCEPT ![r] = @ \cup {"ticker"}]
    /\ ticker' = [ticker EXCEPT ![r] = "writing"]
    /\ UNCHANGED <<sessions, mu, nextId, sessVars, procVars, pc, delId,
                   histVars, whipVars, whipDelVars, dcState, cur, pumpLog,
                   conn, ticks, evalAfterClose, proxyVars, urlVars, offerVars,
                   chanVars, targets, dialled, cdpOut, cdpIn>>

\* That WriteJSON returns and writeMu is released; on a write error the
\* goroutine returns.
TickWriteEnd(r) ==
    /\ ticker[r] = "writing"
    /\ \/ /\ ~WriteFails(r)
          /\ ticks[r] < MaxTicks
          /\ ticks' = [ticks EXCEPT ![r] = @ + 1]
          /\ cdpOut' = [cdpOut EXCEPT ![r] =
                            Append(@, Written("Runtime.evaluate", TRUE))]
          /\ ticker' = [ticker EXCEPT ![r] = "running"]
       \/ /\ WriteFails(r) \/ ~BrowserUp(r)
          /\ cdpOut' = [cdpOut EXCEPT ![r] =
                            Append(@, Written("Runtime.evaluate", FALSE))]
          /\ ticker' = [ticker EXCEPT ![r] = "done"]
          /\ UNCHANGED ticks
    /\ writeMu' = [writeMu EXCEPT ![r] = "none"]
    /\ writing' = [writing EXCEPT ![r] = @ \ {"ticker"}]
    /\ UNCHANGED <<sessions, mu, nextId, sessVars, procVars, pc, delId,
                   histVars, whipVars, whipDelVars, dcState, cur, pumpLog,
                   conn, evalAfterClose, proxyVars, urlVars, offerVars,
                   chanVars, targets, dialled, cdpIn>>

----------------------------------------------------------------------------
\* The debugger proxy: cdpProxyHandler (main.go) and ProxyCDP (proxy.go)

\* Websocket data messages: the framing type ReadMessage reports and the
\* payload bytes.
Messages ==
    { [type |-> "text", payload |-> "a"],
      [type |-> "binary", payload |-> "a"],
      [type |-> "text", payload |-> "b"] }

\* A ProxyCDP that goes on to the upgrade after a failed dial.
AfterDialErrorUpgrade == "upgrade"

\* ProxyCDP: `if err != nil { http.Error(w, ..., 502); return }`
AfterDialError == "returned"

\* cdpProxyHandler: 404 for an id that is not in the registry; else ProxyCDP
\* dials the debugger URL of the Session: 502 and return when the dial
\* fails, else the target connection is open and the upgrade comes next.
ProxyBegin(id) ==
    /\ px = "none"
    /\ CanRLock
    /\ \E dialOk \in BOOLEAN :
        LET status == CdpProxyStatus(id, dialOk) IN
        /\ dialCalls' = IF status = StatusNotFound THEN dialCalls
                        ELSE dialCalls + 1
        /\ IF status = StatusSwitchingProtocols
           THEN /\ connOpen' = [connOpen EXCEPT !["target"] = TRUE]
                /\ px' = "upgrade"
                /\ UNCHANGED pxStatus
           ELSE /\ pxStatus' = status
                /\ px' = IF status = StatusNotFound THEN "returned"
                         ELSE AfterDialError
                /\ UNCHANGED connOpen
    /\ UNCHANGED <<sessions, mu, nextId, sessVars, procVars, pc, delId,
                   histVars, whipVars, whipDelVars, pumpVars, fwd,
                   upgradeCalls, peerGone, errChan, inbox, sent, held,
                   readLog, writeLog, urlVars, extVars>>

\* upgrader.Upgrade: on failure (the upgrader has answered the client with
\* an HTTP error) return, the deferred targetWS.Close() runs; on success
\* both forwarder goroutines are started.
ProxyUpgrade ==
    /\ px = "upgrade"
    /\ upgradeCalls' = upgradeCalls + 1
    /\ \/ /\ connOpen["target"]
          /\ pxStatus' = StatusSwitchingProtocols
          /\ connOpen' = [connOpen EXCEPT !["client"] = TRUE]
          /\ fwd' = [d \in Sides |-> "read"]
          /\ px' = "piping"
       \/ /\ pxStatus' = IF pxStatus = 0 THEN StatusBadRequest ELSE pxStatus
          /\ connOpen' = [connOpen EXCEPT !["target"] = FALSE]
          /\ px' = "returned"
          /\ UNCHANGED fwd
    /\ UNCHANGED <<sessions, mu, nextId, sessVars, procVars, pc, delId,
                   histVars, whipVars, whipDelVars, pumpVars, dialCalls,
                   peerGone, errChan, inbox, sent, held, readLog, writeLog,
                   urlVars, extVars>>

\* The peer at one end sends a message.
PeerSend(d, m) ==
    /\ connOpen[d] /\ ~peerGone[d]
    /\ sent[d] < MaxMessages
    /\ sent' = [sent EXCEPT ![d] = @ + 1]
    /\ inbox' = [inbox EXCEPT ![d] = Append(@, m)]
    /\ UNCHANGED <<sessions, mu, nextId, sessVars, procVars, pc, delId,
                   histVars, whipVars, whipDelVars, pumpVars, px, fwd,
                   pxStatus, dialCalls, upgradeCalls, connOpen, peerGone,
                   errChan, held, readLog, writeLog, urlVars, extVars>>

\* The peer at one end hangs up.
PeerLeave(d) ==
    /\ connOpen[d] /\ ~peerGone[d]
    /\ peerGone' = [peerGone EXCEPT ![d] = TRUE]
    /\ UNCHANGED <<sessions, mu, nextId, sessVars, procVars, pc, delId,
                   histVars, whipVars, whipDelVars, pumpVars, px, fwd,
                   pxStatus, dialCalls, upgradeCalls, connOpen, errChan,
                   inbox, sent, held, readLog, writeLog, urlVars, extVars>>

\* errChan := make(chan error, 2)
ErrChanCap == 2

\* The forwarder reading from side d: ReadMessage returns the next message,
\* or an error once the connection is closed or the peer gone and nothing
\* is left to read; on the error `errChan <- err; return` (the send waits
\* while the channel is full).
FwdRead(d) ==
    /\ fwd[d] = "read"
    /\ IF connOpen[d] /\ inbox[d] # <<>>
       THEN /\ held' = [held EXCEPT ![d] = Head(inbox[d])]
            /\ inbox' = [inbox EXCEPT ![d] = Tail(@)]
            /\ readLog' = [readLog EXCEPT ![d] = Append(@, Head(inbox[d]))]
            /\ fwd' = [fwd EXCEPT ![d] = "write"]
            /\ UNCHANGED errChan
       ELSE /\ ~connOpen[d] \/ peerGone[d]
            /\ errChan < ErrChanCap
            /\ errChan' = errChan + 1
            /\ fwd' = [fwd EXCEPT ![d] = "done"]
            /\ UNCHANGED <<held, inbox, readLog>>
    /\ UNCHANGED <<sessions, mu, nextId, sessVars, procVars, pc, delId,
                   histVars, whipVars, whipDelVars, pumpVars, px, pxStatus,
                   dialCalls, upgradeCalls, connOpen, peerGone, sent,
                   writeLog, urlVars, extVars>>

\* A forwarder that writes every message as a text message.
ForwardedAsText(m) == [type |-> "text", payload |-> m.payload]

\* WriteMessage(msgType, msg): the type and the bytes ReadMessage returned.
Forwarded(m) == [type |-> m.type, payload |-> m.payload]

\* The forwarder reading from side d writes what it read to the other
\* side; the write fails on a closed connection and can fail once that
\* peer is gone: `errChan <- err; return`.
FwdWrite(d) ==
    /\ fwd[d] = "write"
    /\ \/ /\ connOpen[Other(d)]
          /\ writeLog' = [writeLog EXCEPT ![Other(d)] =
                            Append(@, Forwarded(held[d]))]
          /\ fwd' = [fwd EXCEPT ![d] = "read"]
          /\ UNCHANGED errChan
       \/ /\ ~connOpen[Other(d)] \/ peerGone[Other(d)]
          /\ errChan < ErrChanCap
          /\ errChan' = errChan + 1
          /\ fwd' = [fwd EXCEPT ![d] = "done"]
          /\ UNCHANGED writeLog
    /\ held' = [held EXCEPT ![d] = <<>>]
    /\ UNCHANGED <<sessions, mu, nextId, sessVars, procVars, pc, delId,
                   histVars, whipVars, whipDelVars, pumpVars, px, pxStatus,
                   dialCalls, upgradeCalls, connOpen, peerGone, inbox, sent,
                   readLog, urlVars, extVars>>

\* A return that leaves both connections as they are.
DeferredCloseNone == connOpen

\* `defer targetWS.Close()` and `defer clientWS.Close()` at the return.
DeferredClose == [d \in Sides |-> FALSE]

\* `<-errChan`, then ProxyCDP returns and the deferred Close of both
\* connections runs.
ProxyReturn ==
    /\ px = "piping"
    /\ errChan > 0
    /\ errChan' = errChan - 1
    /\ connOpen' = DeferredClose
    /\ px' = "returned"
    /\ UNCHANGED <<sessions, mu, nextId, sessVars, procVars, pc, delId,
                   histVars, whipVars, whipDelVars, pumpVars, fwd, pxStatus,
                   dialCalls, upgradeCalls, peerGone, inbox, sent, held,
                   readLog, writeLog, urlVars, extVars>>

----------------------------------------------------------------------------
\* URL derivation: resolveHost, resolveScheme, resolveWSScheme and the
\* SessionResponse of createSessionHandler and listSessionsHandler (main.go)

\* Host headers, X-Forwarded-Proto headers ("" when absent) and APP_HOST
\* values ("" when unset) explored.
Hosts == {"a.example", "b.example:8080", "localhost:8080"}
ForwardedProtos == {"", "http", "https", "ftp"}
AppHosts == {"", "app.example", "b.example:8080"}

\* What the resolvers read of a request: r.Host, the X-Forwarded-Proto
\* header and whether r.TLS is non-nil.
Requests == [host : Hosts, xfp : ForwardedProtos, tls : BOOLEAN]

ResolveHost(req) == IF appHost # "" THEN appHost ELSE req.host

ResolveScheme(req) ==
    IF req.xfp # "" THEN req.xfp
    ELSE IF req.tls THEN "https"
    ELSE IF appHost # "" THEN "https"
    ELSE "http"

ResolveWSScheme(req) == IF ResolveScheme(req) = "https" THEN "wss" ELSE "ws"

\* fmt.Sprintf("%s://%s/sessions/%s/cdp", ...) and .../preview, as the
\* sequence of their parts.
SessionResponseOf(s, req) ==
    [ID |-> s,
     CDPURL |-> <<ResolveWSScheme(req), "://", ResolveHost(req),
                  "/sessions/", s, "/cdp">>,
     PreviewURL |-> <<ResolveScheme(req), "://", ResolveHost(req),
                      "/sessions/", s, "/preview">>]

\* CreateSession has returned Session s to its caller.
Created(s) == pc[Creator(s)] = "done" /\ startErr[s] = "none"

\* createSessionHandler answers for the Session CreateSession returned.
CreateSessionRespond(s, req) ==
    /\ Created(s)
    /\ httpResp' = [handler |-> "create", req |-> req,
                    body |-> {SessionResponseOf(s, req)}]
    /\ UNCHANGED <<sessions, mu, nextId, sessVars, procVars, pc, delId,
                   histVars, whipVars, whipDelVars, pumpVars, proxyVars,
                   appHost, createBody, lifetime,
                   extVars>>

\* listSessionsHandler answers with one SessionResponse per stored Session.
ListSessionsRespond(req) ==
    /\ CanRLock
    /\ httpResp' = [handler |-> "list", req |-> req,
                    body |-> {SessionResponseOf(s, req) : s \in ListSessions}]
    /\ UNCHANGED <<sessions, mu, nextId, sessVars, procVars, pc, delId,
                   histVars, whipVars, whipDelVars, pumpVars, proxyVars,
                   appHost, createBody, lifetime,
                   extVars>>

----------------------------------------------------------------------------
\* The body of POST /sessions: createSessionHandler (main.go)

\* A request body is the sequence of JSON texts its bytes hold; "malformed"
\* stands for bytes that are no JSON text.  A field value is an integer
\* that fits an int, a number that does not, or a string.
IntVal(n) == [t |-> "int", v |-> n]
TooBig == [t |-> "toobig", v |-> 0]
StringVal == [t |-> "string", v |-> 0]
Field(key, val) == [key |-> key, val |-> val]
Object(fields) == [kind |-> "object", fields |-> fields]
Malformed == [kind |-> "malformed", fields |-> <<>>]
Null == [kind |-> "null", fields |-> <<>>]

\* duration_minutes = 153722867 is the last value whose minutes fit 63 bits.
LastWholeMinutes == 153722867
DurationValues == {-1, 0, 1, 7, LastWholeMinutes, LastWholeMinutes + 1}

Bodies ==
    { <<>>, <<Malformed>>, <<Null>>, <<Object(<<>>)>>,
      <<Object(<<Field("other", IntVal(7))>>)>>,
      <<Object(<<Field("duration_minutes", StringVal)>>)>>,
      <<Object(<<Field("duration_minutes", TooBig)>>)>>,
      <<Object(<<Field("duration_minutes", IntVal(7)),
                 Field("duration_minutes", StringVal)>>)>>,
      <<Object(<<Field("duration_minutes", IntVal(7))>>), Malformed>> }
        \cup { <<Object(<<Field("duration_minutes", IntVal(n))>>)>> :
                    n \in DurationValues }

\* json.Unmarshal of an object into CreateSessionRequest, field by field
\* from field i on: a value that is no int is recorded as the error and
\* the field keeps what it had; keys the struct does not know are skipped.
RECURSIVE DecodeFields(_, _, _)
DecodeFields(fields, i, req) ==
    IF i > Len(fields) THEN req
    ELSE IF fields[i].key # "duration_minutes"
    THEN DecodeFields(fields, i + 1, req)
    ELSE IF fields[i].val.t = "int"
    THEN DecodeFields(fields, i + 1,
                      [req EXCEPT !.DurationMinutes = fields[i].val.v])
    ELSE DecodeFields(fields, i + 1, [req EXCEPT !.err = TRUE])

\* json.NewDecoder(r.Body).Decode(&req): reads the first JSON text of the
\* body and nothing after it; io.EOF on an empty body, a syntax error on
\* bytes that are no JSON text; null leaves req as it is.
Decode(body) ==
    LET req == [DurationMinutes |-> 0, err |-> FALSE] IN
    IF body = <<>> THEN [req EXCEPT !.err = TRUE]
    ELSE IF body[1].kind = "malformed" THEN [req EXCEPT !.err = TRUE]
    ELSE IF body[1].kind = "null" THEN req
    ELSE DecodeFields(body[1].fields, 1, req)

\* req.DurationMinutes = 5
DefaultMinutes == 5

\* createSessionHandler: req.DurationMinutes after the two defaulting ifs.
DurationMinutes(body) ==
    LET req == Decode(body)
        n == IF req.err THEN DefaultMinutes ELSE req.DurationMinutes
    IN  IF n <= 0 THEN DefaultMinutes ELSE n

\* An int64 is kept as its 8 bytes, least significant first (two's
\* complement); Limbs(n, k) are the k low bytes of a natural number.
Base == 256
RECURSIVE Limbs(_, _)
Limbs(n, k) ==
    IF k = 0 THEN <<>> ELSE <<n % Base>> \o Limbs(n \div Base, k - 1)

Digit(a, i) == IF i \in DOMAIN a THEN a[i] ELSE 0

RECURSIVE ColSum(_, _, _, _)
ColSum(a, b, p, i) ==
    IF i > p THEN 0
    ELSE Digit(a, i) * Digit(b, p - i + 1) + ColSum(a, b, p, i + 1)

RECURSIVE MulFrom(_, _, _, _, _)
MulFrom(a, b, p, carry, k) ==
    IF p > k THEN <<>>
    ELSE LET col == ColSum(a, b, p, 1) + carry
         IN  <<col % Base>> \o MulFrom(a, b, p + 1, col \div Base, k)

\* The k low bytes of the product of two byte sequences.
Mul(a, b, k) == MulFrom(a, b, 1, 0, k)

\* time.Minute = 60 * 10^9 nanoseconds = 0x0D_F847_5800.
MinuteLimbs == <<0, 88, 71, 248, 13, 0, 0, 0>>

\* time.Duration(req.DurationMinutes) * time.Minute, in int64.
DurationOf(minutes) == Mul(Limbs(minutes, 8), MinuteLimbs, 8)

\* createSessionHandler up to the call of NewSession: the body is decoded,
\* the duration computed and handed to CreateSession; no body makes the
\* handler answer before that call.
CreateSessionRequest(body) ==
    /\ NewSessionCall
    /\ createBody' = [createBody EXCEPT ![nextId + 1] = body]
    /\ lifetime' = [lifetime EXCEPT ![nextId + 1] =
                        DurationOf(DurationMinutes(body))]
    /\ UNCHANGED <<whipDelVars, pumpVars, proxyVars, appHost, httpResp,
                   extVars>>

----------------------------------------------------------------------------
NextSession ==
    \/ NewSessionStart
    \/ \E s \in SessionIds : ScanLine(s)
    \/ \E s \in SessionIds : ScanEOF(s)
    \/ \E s \in SessionIds : NewSessionURL(s)
    \/ \E s \in SessionIds : NewSessionClosed(s)
    \/ \E s \in SessionIds : NewSessionTimeout(s)
    \/ \E s \in SessionIds : CreateStore(s)
    \/ \E s \in SessionIds : TimerFire(s)
    \/ \E s \in SessionIds : TimerCtxDone(s)
    \/ \E t \in Threads : StopLock(t)
    \/ \E t \in Threads : StopCancel(t)
    \/ \E t \in Threads : StopRemove(t)
    \/ \E s \in SessionIds : ProcExit(s)
    \/ \E s \in SessionIds : ProcKilled(s)
    \/ \E s \in SessionIds : ProcWriteProfile(s)
    \/ \E id \in SessionIds : DeleteBegin(id)
    \/ DeleteFinish

Spec == Init /\ [][NextSession]_vars

\* Session 1 has been created and stored, its browser runs and its timer
\* waits: where every goroutine is, and the state they left.
PcSessionOneRunning ==
    [t \in Threads |->
        IF t = Creator(1) THEN "done"
        ELSE IF t = Timer(1) THEN "wait" ELSE "none"]

SessionOneRunning ==
    /\ sessions = [k \in {1} |-> 1]
    /\ mu = NoThread
    /\ nextId = 1
    /\ isClosed = [s \in SessionIds |-> FALSE]
    /\ smu = [s \in SessionIds |-> NoThread]
    /\ wsURL = [s \in SessionIds |->
                    IF s = 1 THEN <<"ws://", "127.0.0.1:9222/devtools">> ELSE <<>>]
    /\ ctxDone = [s \in SessionIds |-> FALSE]
    /\ cancelCalls = [s \in SessionIds |-> 0]
    /\ removeCalls = [s \in SessionIds |-> 0]
    /\ proc = [s \in SessionIds |-> IF s = 1 THEN "running" ELSE "none"]
    /\ dir = [s \in SessionIds |-> s = 1]
    /\ scan = [s \in SessionIds |-> IF s = 1 THEN "done" ELSE "none"]
    /\ scanURL = [s \in SessionIds |-> <<>>]
    /\ delId = 0
    /\ startErr = [s \in SessionIds |-> "none"]
    /\ fired = {}
    /\ stopReturns = [s \in SessionIds |-> 0]
    /\ deleted = {}

\* No POST /whip has arrived.
WhipIdle ==
    /\ whipResources = [k \in {} |-> 0]
    /\ nextRes = 0
    /\ whipReq = [r \in ResourceIds |-> NoWhipReq]
    /\ pcState = [r \in ResourceIds |-> "none"]
    /\ whipResp = [r \in ResourceIds |-> NoWhipResp]

\* The WHIP surface runs against sessions that exist.
InitWhip ==
    SessionOneRunning /\ pc = PcSessionOneRunning /\ WhipIdle /\ AuxInit

NextWhip ==
    \/ \E id \in SessionIds, ct \in ContentTypes : WhipPostBegin(id, ct)
    \/ \E r \in ResourceIds : WhipNegotiateFail(r)
    \/ \E r \in ResourceIds : WhipNegotiate(r)
    \/ \E r \in ResourceIds : WhipStore(r)
    \/ \E r \in ResourceIds : WhipRespond(r)
    \/ \E r \in ResourceIds : ConnectionStateChange(r)
    \/ \E s \in SessionIds : TimerFire(s)
    \/ \E s \in SessionIds : TimerCtxDone(s)
    \/ \E t \in Threads : StopLock(t)
    \/ \E t \in Threads : StopCancel(t)
    \/ \E t \in Threads : StopRemove(t)
    \/ \E s \in SessionIds : ProcExit(s)
    \/ \E s \in SessionIds : ProcKilled(s)
    \/ \E id \in SessionIds : DeleteBegin(id)
    \/ DeleteFinish

SpecWhip == InitWhip /\ [][NextWhip]_vars

\* POST /whip, DELETE on WHIP resources and the peer-connection callbacks,
\* against a session that stays.
NextWhipDelete ==
    \/ \E id \in SessionIds, ct \in ContentTypes : WhipPostBegin(id, ct)
    \/ \E r \in ResourceIds : WhipNegotiateFail(r)
    \/ \E r \in ResourceIds : WhipNegotiate(r)
    \/ \E r \in ResourceIds : WhipStore(r)
    \/ \E r \in ResourceIds : WhipRespond(r)
    \/ \E r \in ResourceIds : ConnectionStateChange(r)
    \/ \E r \in ResourceIds, n \in RemoverNos : WhipDeleteFind(r, n)
    \/ \E r \in ResourceIds, n \in RemoverNos : WhipDeleteLock(r, n)
    \/ \E r \in ResourceIds, n \in RemoverNos : WhipDeleteClose(r, n)
    \/ \E r \in ResourceIds, n \in RemoverNos : WhipDeleteRemove(r, n)
    \/ \E r \in ResourceIds : ClosedCallback(r)

SpecWhipDelete == InitWhip /\ [][NextWhipDelete]_vars

\* POST /sessions with bodies of every shape; the sessions created run
\* until their timers fire.
NextLifetime ==
    \/ \E body \in Bodies : CreateSessionRequest(body)
    \/ \E s \in SessionIds : ScanLine(s)
    \/ \E s \in SessionIds : NewSessionURL(s)
    \/ \E s \in SessionIds : NewSessionTimeout(s)
    \/ \E s \in SessionIds : CreateStore(s)
    \/ \E s \in SessionIds : TimerFire(s)
    \/ \E t \in Threads : StopCancel(t)
    \/ \E t \in Threads : StopRemove(t)
    \/ \E s \in SessionIds : ProcKilled(s)

SpecLifetime == Init /\ [][NextLifetime]_vars

\* What a POST /whip handler does once it has its peer connection.
PosterSteps ==
    \/ \E r \in ResourceIds : WhipNegotiateFail(r)
    \/ \E r \in ResourceIds : WhipNegotiate(r)
    \/ \E r \in ResourceIds : WhipStore(r)
    \/ \E r \in ResourceIds : WhipRespond(r)

\* POST /whip and PATCH on WHIP resource paths with the peer connection
\* and the data channel, against a session that stays (session ids above 1
\* are in no registry).
NextWhipPatch ==
    \/ \E id \in SessionIds, ct \in ContentTypes : WhipPostBegin(id, ct)
    \/ PosterSteps
    \/ \E r \in ResourceIds : ConnectionStateChange(r)
    \/ \E r \in ResourceIds : DataChannelOpen(r)
    \/ \E r \in ResourceIds : DataChannelClose(r)
    \/ \E id \in SessionIds, rid \in ResourceIds : WhipPatch(id, rid)

SpecWhipPatch == InitWhip /\ [][NextWhipPatch]_vars

\* POST /whip with the ICE agent and the peer connection.
NextWhipIce ==
    \/ \E id \in SessionIds, ct \in ContentTypes : WhipPostBegin(id, ct)
    \/ PosterSteps
    \/ \E r \in ResourceIds : IceGathered(r)
    \/ \E r \in ResourceIds : ConnectionStateChange(r)

\* A POST /whip handler keeps running: none of its steps waits for
\* anything but the ICE select, which the 3-second timer ends.
SpecWhipIce == InitWhip /\ [][NextWhipIce]_vars /\ WF_vars(PosterSteps)

\* POST /whip with bodies of every length, delivered in every way.
NextOffer ==
    \/ \E id \in SessionIds, body \in OfferBodies, chunked \in BOOLEAN,
          k \in 0..MaxOfferLen : WhipPostOffer(id, SDP, body, chunked, k)
    \/ PosterSteps

SpecOffer == InitWhip /\ [][NextOffer]_vars

\* One request to /sessions/{id}/cdp, its two peers and the browser.
NextProxy ==
    \/ \E id \in SessionIds : ProxyBegin(id)
    \/ ProxyUpgrade
    \/ \E d \in Sides, m \in Messages : PeerSend(d, m)
    \/ \E d \in Sides : PeerLeave(d)
    \/ \E d \in Sides : FwdRead(d)
    \/ \E d \in Sides : FwdWrite(d)
    \/ ProxyReturn
    \/ \E s \in SessionIds : ProcExit(s)

SpecProxy == InitWhip /\ [][NextProxy]_vars

\* What the two forwarder goroutines do.
ForwarderSteps(d) == FwdRead(d) \/ FwdWrite(d)

\* The messages followed through a shutdown (what a message holds has no
\* part in it).
ShutdownMessages == {[type |-> "text", payload |-> "a"]}

\* One request to /sessions/{id}/cdp and its two peers.
NextProxyShut ==
    \/ \E id \in SessionIds : ProxyBegin(id)
    \/ ProxyUpgrade
    \/ \E d \in Sides, m \in ShutdownMessages : PeerSend(d, m)
    \/ \E d \in Sides : PeerLeave(d)
    \/ \E d \in Sides : ForwarderSteps(d)
    \/ ProxyReturn

\* ProxyCDP and its forwarders keep running; nothing is promised about the
\* two peers.
SpecProxyLive ==
    /\ InitWhip /\ [][NextProxyShut]_vars
    /\ WF_vars(ProxyReturn)
    /\ \A d \in Sides : WF_vars(ForwarderSteps(d))

\* The server was started with some APP_HOST; session 1 runs.
InitURL ==
    /\ SessionOneRunning
    /\ pc = PcSessionOneRunning
    /\ WhipIdle /\ WhipDelInit /\ PumpInit /\ ProxyInit /\ ExtInit
    /\ appHost \in AppHosts
    /\ httpResp = NoHttpResp
    /\ createBody = [s \in SessionIds |-> NoBody]
    /\ lifetime = [s \in SessionIds |-> NoDuration]

\* POST /sessions and GET /sessions answer requests of every shape.
NextURL ==
    \/ \E s \in SessionIds, req \in Requests : CreateSessionRespond(s, req)
    \/ \E req \in Requests : ListSessionsRespond(req)

SpecURL == InitURL /\ [][NextURL]_vars

\* A POST /whip for session 1 has answered 201, its resource is registered
\* and its peer connection is connected; the data channel has yet to open.
InitPump ==
    /\ SessionOneRunning
    /\ pc = [PcSessionOneRunning EXCEPT ![Poster(1)] = "done"]
    /\ nextRes = 1
    /\ whipReq = [r \in ResourceIds |->
                    IF r = 1 THEN [sid |-> 1, ct |-> SDP] ELSE NoWhipReq]
    /\ whipResources = [k \in {1} |-> NewResource(1)]
    /\ pcState = [r \in ResourceIds |-> IF r = 1 THEN "connected" ELSE "none"]
    /\ whipResp = [r \in ResourceIds |->
                    IF r = 1
                    THEN [status |-> StatusCreated, contentType |-> SDP,
                          location |-> WhipLocation(1, 1), answerOf |-> 1]
                    ELSE NoWhipResp]
    /\ AuxInit

\* What the Pump itself does.
PumpSteps ==
    \/ \E r \in ResourceIds : PumpStart(r)
    \/ \E r \in ResourceIds : PumpReadError(r)
    \/ \E r \in ResourceIds : PumpChunk(r)
    \/ \E r \in ResourceIds : PumpAck(r)

\* What the automation goroutine does.
TickerSteps == \E r \in ResourceIds : TickerTick(r)

\* What DeleteSession and the subprocess watcher do once begun.
StopSteps ==
    \/ \E t \in Threads : StopLock(t)
    \/ \E t \in Threads : StopCancel(t)
    \/ \E t \in Threads : StopRemove(t)
    \/ \E s \in SessionIds : ProcKilled(s)
    \/ DeleteFinish

\* What a DELETE handler on a WHIP resource does once it found it, and the
\* callback its Close schedules.
RemoverSteps ==
    \/ \E r \in ResourceIds, n \in RemoverNos : WhipDeleteLock(r, n)
    \/ \E r \in ResourceIds, n \in RemoverNos : WhipDeleteClose(r, n)
    \/ \E r \in ResourceIds, n \in RemoverNos : WhipDeleteRemove(r, n)
    \/ \E r \in ResourceIds : ClosedCallback(r)

\* The request GET /sessions is followed with.
PlainRequests == {[host |-> "a.example", xfp |-> "", tls |-> FALSE]}

\* Everything that takes a lock: DeleteSession and the lifetime timer on a
\* session, GET /sessions (ListSessions), a request to /cdp (GetSession;
\* its two peers stay silent), DELETE on WHIP resources with the callback
\* Close schedules, and the data-channel callback.
NextLocks ==
    \/ \E req \in PlainRequests : ListSessionsRespond(req)
    \/ \E id \in SessionIds : ProxyBegin(id)
    \/ ProxyUpgrade
    \/ \E r \in ResourceIds : DataChannelOpen(r)
    \/ \E r \in ResourceIds, n \in RemoverNos : WhipDeleteFind(r, n)
    \/ RemoverSteps
    \/ \E s \in SessionIds : TimerFire(s)
    \/ \E s \in SessionIds : TimerCtxDone(s)
    \/ \E id \in SessionIds : DeleteBegin(id)
    \/ StopSteps

\* Every goroutine that can take a step takes one; nothing is promised
\* about requests, timers or the peer.
SpecLocks ==
    /\ InitPump /\ [][NextLocks]_vars
    /\ WF_vars(RemoverSteps) /\ WF_vars(StopSteps)

\* The data channels of registered resources, with POST /whip, DELETE and
\* the peer connection; the session stays.
NextChannels ==
    \/ \E r \in ResourceIds, label \in Labels : OnDataChannel(r, label)
    \/ \E r \in ResourceIds, c \in 1..MaxChannels : ChannelOpen(r, c)
    \/ \E r \in ResourceIds, c \in 1..MaxChannels : ChannelClose(r, c)
    \/ \E r \in ResourceIds : ConnectionStateChange(r)
    \/ \E r \in ResourceIds, n \in RemoverNos : WhipDeleteFind(r, n)
    \/ RemoverSteps

SpecChannels == InitPump /\ [][NextChannels]_vars

\* The Pump of a registered resource, with its browser, its peer and the
\* deletion of its session.
NextPump ==
    \/ \E r \in ResourceIds : DataChannelOpen(r)
    \/ \E r \in ResourceIds : DataChannelClose(r)
    \/ \E r \in ResourceIds : PumpReadFrame(r)
    \/ PumpSteps
    \/ \E r \in ResourceIds : ConnectionStateChange(r)
    \/ \E s \in SessionIds : ProcExit(s)
    \/ \E id \in SessionIds : DeleteBegin(id)
    \/ StopSteps

SpecPump == InitPump /\ [][NextPump]_vars

\* The goroutines of the server keep running: whatever the Pump, Stop,
\* DeleteSession and the subprocess watcher can do next happens.  Nothing
\* is promised about the browser, the peer or the network.
SpecPumpLive ==
    InitPump /\ [][NextPump]_vars /\ WF_vars(PumpSteps) /\ WF_vars(StopSteps)

\* The Pump of a registered resource and its automation ticker, with the
\* browser and the peer; the session stays.
NextPumpExit ==
    \/ \E r \in ResourceIds : DataChannelOpen(r)
    \/ \E r \in ResourceIds : DataChannelClose(r)
    \/ \E r \in ResourceIds : PumpReadFrame(r)
    \/ PumpSteps
    \/ TickerSteps
    \/ \E s \in SessionIds : ProcExit(s)

\* The Pump and its ticker keep running; nothing is promised about the
\* browser or the peer.
SpecPumpExit ==
    /\ InitPump /\ [][NextPumpExit]_vars
    /\ WF_vars(PumpSteps) /\ WF_vars(TickerSteps)

\* What the browser's /json brings while a Pump is followed through its
\* writes: nothing, or one page target.
WireDiscoveries ==
    { [outcome |-> "fetch_error", list |-> <<>>],
      [outcome |-> "ok", list |-> <<[type |-> "page", url |-> "ws://page1"]>>] }

\* The frame events it is followed through: one chunk each.
WireEvents == [fault : {"none"}, size : {ChunkSize}, sessionId : {1}]

\* The Pump of a registered resource write by write, with its automation
\* goroutine, the browser and the peer; the session stays.
NextPumpWire ==
    \/ \E r \in ResourceIds : DataChannelOpen(r)
    \/ \E r \in ResourceIds : DataChannelClose(r)
    \/ \E r \in ResourceIds, d \in WireDiscoveries : PumpDiscover(r, d)
    \/ \E r \in ResourceIds : PumpDial(r)
    \/ \E r \in ResourceIds : BootWriteBegin(r)
    \/ \E r \in ResourceIds : BootWriteEnd(r)
    \/ \E r \in ResourceIds, ev \in WireEvents : PumpReadMessage(r, ev)
    \/ \E r \in ResourceIds : PumpReadError(r)
    \/ \E r \in ResourceIds : PumpChunk(r)
    \/ \E r \in ResourceIds : AckWriteBegin(r)
    \/ \E r \in ResourceIds : AckWriteEnd(r)
    \/ \E r \in ResourceIds : TickWriteBegin(r)
    \/ \E r \in ResourceIds : TickWriteEnd(r)
    \/ \E s \in SessionIds : ProcExit(s)

SpecPumpWire == InitPump /\ [][NextPumpWire]_vars

\* The frame events the read loop is followed through: one that decodes
\* and the two that do not.
DropEvents ==
    {ev \in FrameEvents :
        ev.fault # "none" \/ (ev.size = ChunkSize /\ ev.sessionId = 1)}

\* The read loop of the Pump of a registered resource, for every kind of
\* debugger message the browser can send; the automation goroutine is left
\* out.
NextPumpDrop ==
    \/ \E r \in ResourceIds : DataChannelOpen(r)
    \/ \E r \in ResourceIds : DataChannelClose(r)
    \/ \E r \in ResourceIds, ev \in DropEvents : PumpReadMessage(r, ev)
    \/ \E r \in ResourceIds, kind \in OtherMessages : PumpReadOther(r, kind)
    \/ PumpSteps
    \/ \E s \in SessionIds : ProcExit(s)

SpecPumpDrop == InitPump /\ [][NextPumpDrop]_vars

\* The Pump of a registered resource from the target list to its read
\* loop, for every answer of the browser's /json; the browser sends no
\* frame.
NextTargets ==
    \/ \E r \in ResourceIds : DataChannelOpen(r)
    \/ \E r \in ResourceIds, d \in Discoveries : PumpDiscover(r, d)
    \/ \E r \in ResourceIds : PumpDial(r)
    \/ \E r \in ResourceIds : BootWriteBegin(r)
    \/ \E r \in ResourceIds : BootWriteEnd(r)
    \/ \E r \in ResourceIds : PumpReadError(r)
    \/ \E r \in ResourceIds : TickWriteBegin(r)
    \/ \E r \in ResourceIds : TickWriteEnd(r)
    \/ \E s \in SessionIds : ProcExit(s)

SpecTargets == InitPump /\ [][NextTargets]_vars

----------------------------------------------------------------------------
\* Properties of the session lifecycle and the registry

\* C1: once the lifetime timer of a stored session has fired and its Stop has
\* returned, with no explicit delete, GetSession reports the session absent,
\* ListSessions does not contain it and /sessions/S/cdp answers 404.
C1_ExpiredSessionAbsent ==
    \A s \in SessionIds :
        (Created(s) /\ s \in fired /\ pc[Timer(s)] = "done" /\ s \notin deleted
            /\ CanRLock)
        => /\ ~GetSession(s)[2]
           /\ s \notin ListSessions
           /\ \A dialOk \in BOOLEAN : CdpProxyStatus(s, dialOk) = StatusNotFound

\* C2: every Session in the registry has a running subprocess or has its
\* closed-flag set.
C2_RunningOrClosed ==
    \A k \in DOMAIN sessions :
        proc[sessions[k]] = "running" \/ isClosed[sessions[k]]

\* C3: however the Stop calls of the timer and of DeleteSession interleave,
\* the cancel func is invoked at most once and the data directory removed at
\* most once, and once any Stop has returned both have happened exactly once
\* and the Session is closed.
C3_StopIdempotent ==
    \A s \in SessionIds :
        /\ cancelCalls[s] <= 1
        /\ removeCalls[s] <= 1
        /\ stopReturns[s] >= 1 =>
            isClosed[s] /\ cancelCalls[s] = 1 /\ removeCalls[s] = 1

\* Both the timer's and DeleteSession's Stop have returned for one Session.
C3_Witness == \E s \in SessionIds : stopReturns[s] = 2

\* C4: from the return of CreateSession until DeleteSession removes it,
\* GetSession(S.ID) returns S with presence true and ListSessions contains S,
\* whatever happens to other ids; once DeleteSession(S.ID) has returned,
\* GetSession reports absent and ListSessions does not contain S.
C4_RegistryRoundTrip ==
    \A s \in SessionIds :
        /\ (Created(s) /\ s \notin deleted) =>
            GetSession(s) = <<s, TRUE>> /\ s \in ListSessions
        /\ s \in deleted => ~GetSession(s)[2] /\ s \notin ListSessions

\* One session has been deleted while another, created before, is still there.
C4_Witness ==
    \E s1, s2 \in SessionIds :
        s1 \in deleted /\ s2 \notin deleted /\ Created(s2) /\ GetSession(s2)[2]

\* C5: after DeleteSession(S) has returned for a stored session, its
\* subprocess is terminated and its data directory does not exist.
C5_DeletedIsGone ==
    \A s \in deleted : proc[s] = "exited" /\ ~dir[s]

\* C6: after a first DELETE /sessions/{id} has removed the session, a second
\* DELETE for the same id answers 404.
C6_SecondDeleteNotFound ==
    \A id \in deleted : StopSessionStatus(id) = StatusNotFound

\* C7: when discovery times out NewSession has killed the subprocess and
\* removed the data directory, and no Session is stored.
C7_TimeoutCleansUp ==
    \A s \in SessionIds :
        startErr[s] = "timeout" =>
            proc[s] = "exited" /\ ~dir[s] /\ ~GetSession(s)[2]

\* C8: a failed start never stores a Session, and every Session in the
\* registry has a non-empty debugger URL.
C8_FailedStartStoresNothing ==
    /\ \A s \in SessionIds :
        startErr[s] # "none" =>
            pc[Creator(s)] = "done" /\ ~GetSession(s)[2] /\ s \notin ListSessions
    /\ \A k \in DOMAIN sessions : wsURL[sessions[k]] # <<>>

\* A start has failed after the browser ran, next to a stored Session.
C8_Witness ==
    /\ \E s \in SessionIds : startErr[s] \in {"closed", "timeout"}
    /\ DOMAIN sessions # {}

----------------------------------------------------------------------------
\* Properties of the WHIP surface

\* The registry entry whipHandler made for resource r is in place.
Registered(r) ==
    /\ r \in DOMAIN whipResources
    /\ whipResources[r] = [ID |-> r, PeerConnection |-> r, SessionID |-> whipReq[r].sid]

\* C9, as claimed: at the moment a successful POST /whip writes its response
\* the WHIP registry holds the entry keyed R, with SessionID S and the peer
\* connection that produced the answer.
C9_RegisteredAtResponse ==
    \A r \in ResourceIds : pc[Poster(r)] = "respond" => Registered(r)

\* The response of a successful POST /whip, and the registry when it is
\* written: the entry is there unless the peer connection has already
\* entered failed or closed.
C9_State ==
    \A r \in ResourceIds :
        /\ whipResp[r].status = StatusCreated =>
            /\ whipResp[r].contentType = "application/sdp"
            /\ whipResp[r].location = <<"/sessions/", whipReq[r].sid, "/whip/", r>>
            /\ whipResp[r].answerOf = r
        /\ pc[Poster(r)] = "respond" =>
            Registered(r) \/ pcState[r] \in {"failed", "closed"}

\* The step that takes a POST /whip handler to its response has added one
\* entry, keyed R, and changed no other; only that step leads to a 201.
C9_Step ==
    \A r \in ResourceIds :
        /\ (pc[Poster(r)] # "respond" /\ pc'[Poster(r)] = "respond") =>
            /\ r \notin DOMAIN whipResources
            /\ DOMAIN whipResources' = DOMAIN whipResources \cup {r}
            /\ Registered(r)'
            /\ \A k \in DOMAIN whipResources : whipResources'[k] = whipResources[k]
        /\ (whipResp[r].status # StatusCreated /\ whipResp'[r].status = StatusCreated) =>
            pc[Poster(r)] = "respond"

\* C9 (amended): every successful POST /whip answers 201 with Content-Type
\* application/sdp, Location /sessions/S/whip/R and the answer of its own
\* peer connection; before answering it has added exactly one registry
\* entry, keyed R, with SessionID S and that peer connection; when the
\* response is written the entry is still there unless the connection has
\* already entered failed or closed.
C9_WhipCreated == [](C9_State) /\ [][C9_Step]_vars

\* A POST /whip has answered 201 for the second resource of a session.
C9_Witness ==
    \E r \in ResourceIds :
        r > 1 /\ whipResp[r].status = StatusCreated /\ Registered(r)

\* C10: a POST /whip for an existing session whose Content-Type is not
\* application/sdp is answered 400; no peer connection is ever allocated
\* for such a request and no registry entry stems from one.
C10_ContentTypeGate ==
    /\ \A id \in SessionIds, ct \in ContentTypes :
        (GetSession(id)[2] /\ ct # "application/sdp") =>
            WhipGate(id, ct) = StatusBadRequest
    /\ \A r \in ResourceIds :
        pcState[r] # "none" => whipReq[r].ct = "application/sdp"
    /\ \A k \in DOMAIN whipResources : whipReq[k].ct = "application/sdp"

\* A session exists for which a JSON POST is rejected with 400 while an SDP
\* POST has been let through and got its resource stored.
C10_Witness ==
    /\ \E id \in SessionIds :
        GetSession(id)[2] /\ WhipGate(id, "application/json") = StatusBadRequest
    /\ DOMAIN whipResources # {}

\* The only DELETE handlers at work on r are ones that have not found it.
NoRemover(r) == \A n \in RemoverNos : pc[Remover(r, n)] = "none"

C11_State ==
    \A r \in ResourceIds :
        delOK[r] >= 1 =>
            /\ r \notin DOMAIN whipResources
            /\ pcState[r] = "closed"
            /\ closeCalls[r] >= 1
            /\ WhipDeleteStatus(r) = StatusNotFound

C11_Step ==
    \A r \in ResourceIds :
        /\ closeCalls'[r] # closeCalls[r] =>
            /\ \E n \in RemoverNos : rmu[r] = Remover(r, n)
            /\ closeCalls'[r] = closeCalls[r] + 1
            /\ pcState'[r] = "closed"
        /\ delOK'[r] # delOK[r] =>
            /\ delOK'[r] = delOK[r] + 1
            /\ closeCalls[r] >= 1
            /\ r \notin DOMAIN whipResources'
        /\ (delOK[r] >= 1 /\ NoRemover(r)) =>
            /\ NoRemover(r)'
            /\ closeCalls'[r] = closeCalls[r]

\* C11: a DELETE on a registered resource R closes R's peer connection while
\* it holds R's lock, removes R from the WHIP registry and answers 200; a
\* DELETE that arrives after one has answered (none being in flight) finds
\* nothing, answers 404 and closes nothing.
C11_WhipDelete == [](C11_State) /\ [][C11_Step]_vars

\* A DELETE has answered 200 for a resource whose POST answered 201.
C11_Witness ==
    \E r \in ResourceIds :
        delOK[r] = 1 /\ closeCalls[r] = 1 /\ whipResp[r].status = StatusCreated

\* C12: once the peer connection of a WHIP resource is failed or closed (and
\* the state-change callback has run), the resource is not in the registry,
\* however the callback interleaves with the POST handler and with DELETE;
\* a connection that is disconnected keeps its entry.
C12_TerminalMeansAbsent ==
    \A r \in ResourceIds :
        (pcState[r] \in {"failed", "closed"} /\ ~closedCb[r])
            => r \notin DOMAIN whipResources

----------------------------------------------------------------------------
\* Properties of the screencast Pump

\* The Pump of r is inside its read loop.
PumpRunning(r) == pc[Pump(r)] \in {"read", "chunk", "ack"}

\* The remote peer of r is alive: the connection is connected and the
\* screencast channel open.
PeerAlive(r) == pcState[r] = "connected" /\ dcState[r] = "open"

\* C13: when the session of a registered resource with a running Pump has
\* been deleted, or its browser has exited, then eventually the peer
\* connection of the resource is failed or closed and the resource is
\* absent from the WHIP registry, also when the remote peer stays alive
\* (the other way out is that the peer goes away).
C13_OrphanedResourcePurged ==
    \A r \in ResourceIds :
        (/\ Registered(r)
         /\ PumpRunning(r)
         /\ PeerAlive(r)
         /\ PumpSession(r) \in deleted \/ proc[PumpSession(r)] = "exited")
        ~> (\/ /\ pcState[r] \in {"failed", "closed"}
               /\ r \notin DOMAIN whipResources
            \/ ~PeerAlive(r))

\* Positions of the pumpLog entries of one kind, and of one kind and frame.
EntriesOf(r, kind) ==
    {p \in DOMAIN pumpLog[r] : pumpLog[r][p].ev = kind}
FrameEntries(r, kind, k) ==
    {p \in EntriesOf(r, kind) : pumpLog[r][p].frame = k}

\* C14: whenever the Pump is back at the point where it consumes the next
\* message, every frame event it has consumed, decodable or not, has been
\* followed by exactly one Page.screencastFrameAck with the sessionId of
\* that event.
C14_OneAckPerFrame ==
    \A r \in ResourceIds :
        pc[Pump(r)] = "read" =>
            \A p \in EntriesOf(r, "frame") :
                \E q \in DOMAIN pumpLog[r] :
                    /\ FrameEntries(r, "ack", pumpLog[r][p].frame) = {q}
                    /\ q > p
                    /\ pumpLog[r][q].sessionId = pumpLog[r][p].sessionId

\* Bytes of the binary messages at positions p .. q - 1 of a log.
RECURSIVE ChunkBytes(_, _, _)
ChunkBytes(log, p, q) ==
    IF p >= q THEN 0
    ELSE (IF log[p].ev = "binary" THEN log[p].to - log[p].from ELSE 0)
            + ChunkBytes(log, p + 1, q)

\* The position of the first frame-start after position p, or one past the
\* end of the log.
NextStart(r, p) ==
    LET later == {q \in EntriesOf(r, "text") : q > p}
    IN  IF later = {} THEN Len(pumpLog[r]) + 1 ELSE MinOf(later)

\* C15: the binary chunks sent between a frame-start and the next
\* frame-start, or the end of the stream, sum to the size of that
\* frame-start, send failures included.
C15_ChunksSumToSize ==
    \A r \in ResourceIds :
        \A p \in EntriesOf(r, "text") :
            (NextStart(r, p) <= Len(pumpLog[r]) \/ pc[Pump(r)] = "ended")
                => ChunkBytes(pumpLog[r], p + 1, NextStart(r, p))
                        = pumpLog[r][p].size

\* ceil(n / 60000)
ChunksFor(n) == (n + 59999) \div 60000

\* C16: for a frame of N bytes none of whose sends failed, the Pump sends
\* the frame-start with size N right after consuming the event, then the
\* slices [0, 60000), [60000, 120000), ... of the payload in order, the last
\* one ending at N, ceil(N/60000) of them once the ack is written, then one
\* ack; every chunk but the last has 60000 bytes, the last 1..60000; N = 0
\* gives no chunk and N = 60001 chunks of 60000 and 1.  Messages of a later
\* frame come after every message of an earlier one.
C16_Chunking ==
    \A r \in ResourceIds :
        LET log == pumpLog[r] IN
        /\ \A p, q \in DOMAIN log : p < q => log[p].frame <= log[q].frame
        /\ \A p \in EntriesOf(r, "text") :
            LET k == log[p].frame
                N == log[p].size
                sentSoFar == Cardinality(FrameEntries(r, "binary", k))
            IN  FrameEntries(r, "senderr", k) = {} =>
                /\ p > 1 /\ log[p - 1].ev = "frame" /\ log[p - 1].frame = k
                /\ sentSoFar <= ChunksFor(N)
                /\ \A j \in 1..sentSoFar :
                    /\ log[p + j].ev = "binary"
                    /\ log[p + j].frame = k
                    /\ log[p + j].from = (j - 1) * 60000
                    /\ log[p + j].to =
                        IF j < ChunksFor(N) THEN j * 60000 ELSE N
                    /\ log[p + j].to - log[p + j].from \in 1..60000
                /\ Cardinality(FrameEntries(r, "ack", k)) <= 1
                /\ \A q \in FrameEntries(r, "ack", k) :
                    /\ sentSoFar = ChunksFor(N)
                    /\ q = p + sentSoFar + 1
                    /\ N = 0 => q = p + 1
                    /\ N = 60001 =>
                        /\ q = p + 3
                        /\ <<log[p + 1].to - log[p + 1].from,
                              log[p + 2].to - log[p + 2].from>> = <<60000, 1>>

\* A frame of 60001 bytes has gone out whole and has been acknowledged, and
\* the frame-start of the next frame has followed it.
C16_Witness ==
    \E r \in ResourceIds :
        \E p \in EntriesOf(r, "text") :
            /\ pumpLog[r][p].size = 60001
            /\ FrameEntries(r, "senderr", pumpLog[r][p].frame) = {}
            /\ FrameEntries(r, "ack", pumpLog[r][p].frame) # {}
            /\ NextStart(r, p) <= Len(pumpLog[r])

----------------------------------------------------------------------------
\* Properties of the debugger proxy

IsPrefix(s, w) == Len(s) <= Len(w) /\ SubSeq(w, 1, Len(s)) = s

\* C17: in each direction the messages written to the destination, with
\* their framing types and payloads, are a prefix of the messages read
\* from the source.
C17_ProxyTransparent ==
    \A d \in Sides : IsPrefix(writeLog[Other(d)], readLog[d])

\* One direction has passed a text and a binary message on while the other
\* direction has passed a message too.
C17_Witness ==
    \E d \in Sides :
        /\ Len(writeLog[d]) >= 2
        /\ writeLog[d][1].type # writeLog[d][2].type
        /\ Len(writeLog[Other(d)]) >= 1

\* C18: a failed dial answers 502 and the client is never upgraded; a
\* failed upgrade after a dial closes the target connection, starts no
\* forwarder and returns; a request for an id absent from the registry
\* answers 404 and nothing is dialled.  Forwarders run only after a
\* successful upgrade.
C18_ProxyFailureModes ==
    /\ pxStatus = StatusBadGateway =>
        /\ px = "returned"
        /\ dialCalls = 1 /\ upgradeCalls = 0
        /\ \A d \in Sides : ~connOpen[d] /\ fwd[d] = "none"
    /\ (upgradeCalls >= 1 /\ pxStatus # StatusSwitchingProtocols) =>
        /\ px = "returned"
        /\ dialCalls = 1 /\ upgradeCalls = 1
        /\ \A d \in Sides : ~connOpen[d] /\ fwd[d] = "none"
    /\ pxStatus = StatusNotFound =>
        px = "returned" /\ dialCalls = 0 /\ upgradeCalls = 0
    /\ \A id \in SessionIds, dialOk \in BOOLEAN :
        (CanRLock /\ ~GetSession(id)[2]) =>
            CdpProxyStatus(id, dialOk) = StatusNotFound
    /\ \A d \in Sides :
        fwd[d] # "none" =>
            pxStatus = StatusSwitchingProtocols /\ upgradeCalls = 1

\* The dial succeeded and the upgrade failed.
C18_Witness ==
    /\ px = "returned"
    /\ dialCalls = 1 /\ upgradeCalls = 1
    /\ pxStatus = StatusBadRequest

----------------------------------------------------------------------------
\* Properties of the URL derivation

\* C19: with APP_HOST set to h, the cdp_url of every SessionResponse, of
\* create and of list, has scheme wss and host h, whatever the Host header,
\* the X-Forwarded-Proto header and the TLS state of the request.
C19_AppHostURL ==
    appHost # "" =>
        \A resp \in httpResp.body :
            resp.CDPURL[1] = "wss" /\ resp.CDPURL[3] = appHost

\* C20: the HTTP scheme of a response is https when X-Forwarded-Proto says
\* https, the request came over TLS or APP_HOST is set, and http otherwise;
\* the websocket scheme is wss exactly when the HTTP scheme is https, and ws
\* otherwise.
C20_SchemeRule ==
    \A resp \in httpResp.body :
        /\ resp.PreviewURL[1] =
            IF httpResp.req.xfp = "https" \/ httpResp.req.tls \/ appHost # ""
            THEN "https" ELSE "http"
        /\ resp.CDPURL[1] \in {"ws", "wss"}
        /\ resp.CDPURL[1] = "wss" <=> resp.PreviewURL[1] = "https"

----------------------------------------------------------------------------
\* Properties of the control plane

\* The body is one JSON text.
ValidJSON(body) == Len(body) = 1 /\ body[1].kind # "malformed"

\* The body is valid JSON and none of its duration_minutes is a value an
\* int cannot take.
Decodable(body) ==
    /\ ValidJSON(body)
    /\ \A j \in DOMAIN body[1].fields :
        body[1].fields[j].key = "duration_minutes"
            => body[1].fields[j].val.t = "int"

\* The duration_minutes values a JSON object carries.
MinutesIn(body) ==
    { body[1].fields[i].val.v :
        i \in { j \in DOMAIN body[1].fields :
                    /\ body[1].fields[j].key = "duration_minutes"
                    /\ body[1].fields[j].val.t = "int" } }

\* The int64 d holds exactly n minutes.
IsMinutes(d, n) ==
    /\ Len(d) = 8
    /\ d[8] < 128
    /\ Mul(Limbs(n, 8), MinuteLimbs, 16) = d \o <<0, 0, 0, 0, 0, 0, 0, 0>>

\* C21: every create request reaches CreateSession; the lifetime passed is
\* N minutes when the body decodes to duration_minutes = N > 0, and exactly
\* 5 minutes when N <= 0, when the field is missing, or when the body is
\* not valid JSON.
C21_LifetimeDefault ==
    \A s \in 1..nextId :
        LET body == createBody[s]
            given == IF Decodable(body) THEN MinutesIn(body) ELSE {}
        IN  body # NoBody =>
                /\ lifetime[s] # NoDuration
                /\ \A n \in given : n > 0 => IsMinutes(lifetime[s], n)
                /\ (\A n \in given : n <= 0) => IsMinutes(lifetime[s], 5)

\* C22: a request to /sessions/{id}/cdp, a POST /sessions/{id}/whip or a
\* PATCH or DELETE /sessions/{id}/whip/{resourceId} whose id is not in the
\* session registry answers 404 (and so touches no registry and closes no
\* peer connection), also when resourceId names a registered resource of
\* another session.
C22_MissingSession404 ==
    \A id \in SessionIds :
        (CanRLock /\ ~GetSession(id)[2]) =>
            /\ \A dialOk \in BOOLEAN : CdpProxyStatus(id, dialOk) = 404
            /\ \A ct \in ContentTypes : WhipGate(id, ct) = 404
            /\ \A rid \in ResourceIds, method \in {"PATCH", "DELETE"} :
                WhipResourceStatus(id, rid, method) = 404

\* C23: a PATCH on a registered WHIP resource answers 204, a PATCH on an
\* unregistered resource id answers 404, and either leaves the WHIP
\* registry, every peer connection and every data channel as they were.
C23_PatchNoOp ==
    [][patchResp' # patchResp =>
        /\ patchResp'.status =
            IF patchResp'.rid \in DOMAIN whipResources THEN 204 ELSE 404
        /\ UNCHANGED <<whipResources, pcState, dcState, closeCalls, rmu,
                       closedCb, whipReq>>]_vars

\* A PATCH has answered 204 for a registered resource whose data channel is
\* open.
C23_Witness ==
    /\ patchResp.status = 204
    /\ patchResp.rid \in DOMAIN whipResources
    /\ dcState[patchResp.rid] = "open"

\* C24: POST /whip always terminates; a handler waiting for ICE gathering
\* stops waiting whether or not gathering completes, inserts its resource
\* into the WHIP registry when it does, and answers 201 with the local
\* description of its own peer connection.
C24_IceCap ==
    /\ \A r \in ResourceIds :
        pc[Poster(r)] \in {"negotiate", "ice_wait", "respond"}
            ~> pc[Poster(r)] = "done"
    /\ [][\A r \in ResourceIds :
            /\ (pc[Poster(r)] = "ice_wait" /\ pc'[Poster(r)] # "ice_wait")
                => pc'[Poster(r)] = "respond" /\ Registered(r)'
            /\ (pc[Poster(r)] = "respond" /\ pc'[Poster(r)] # "respond")
                => /\ pc'[Poster(r)] = "done"
                   /\ whipResp'[r].status = 201
                   /\ whipResp'[r].answerOf = r]_vars

\* A POST /whip has answered 201 although gathering has not completed.
C24_Witness ==
    \E r \in ResourceIds :
        /\ whipResp[r].status = 201
        /\ ~gathered[r]
        /\ pc[Poster(r)] = "done"

----------------------------------------------------------------------------
\* Properties of concurrent registry and WHIP operations

\* C25: however DeleteSession(S), the lifetime timer and GetSession(S)
\* calls interleave, a GetSession that can return (no writer holds the
\* registry lock) never returns a Session whose subprocess has been
\* signalled through its cancel func, or reaped after that, while its
\* closed-flag is unset; from the Stop inside DeleteSession to the removal
\* the registry write lock is held.
C25_DeleteGetRace ==
    /\ \A id \in SessionIds :
        (mu = NoThread /\ GetSession(id)[2] /\ ctxDone[GetSession(id)[1]])
            => isClosed[GetSession(id)[1]]
    /\ pc[Deleter] # "none" =>
        /\ mu = Deleter
        /\ delId \in DOMAIN sessions
        /\ ctxDone[sessions[delId]] => isClosed[sessions[delId]]

\* DeleteSession has stopped a Session and its subprocess is reaped while
\* the Session is still in the map: a concurrent GetSession waits for the
\* lock.
C25_Witness ==
    /\ pc[Deleter] = "del_delete"
    /\ delId \in DOMAIN sessions
    /\ proc[sessions[delId]] = "exited"
    /\ ctxDone[sessions[delId]]
    /\ ~CanRLock

\* The POST /whip handler of r has answered 201.
Answered(r) == pc[Poster(r)] = "done" /\ whipResp[r].status = 201

\* C26: over the life of a WHIP resource, whatever DELETE requests and
\* connection-state callbacks do, Close is invoked on its peer connection
\* at most once, and exactly once by the time the resource has left the
\* registry, be it by DELETE or because the connection failed.
C26_CloseExactlyOnce ==
    \A r \in ResourceIds :
        /\ closeCalls[r] <= 1
        /\ (Answered(r) /\ r \notin DOMAIN whipResources /\ NoRemover(r))
            => closeCalls[r] = 1

\* C27: at the step that inserts a WHIP resource into the WHIP registry,
\* the session id it carries is in the session registry, however POST
\* /whip interleaves with DeleteSession of that session.
C27_ParentAtInsert ==
    [][\A r \in ResourceIds :
        (r \notin DOMAIN whipResources /\ r \in DOMAIN whipResources')
            => whipResources'[r].SessionID \in DOMAIN sessions]_vars

----------------------------------------------------------------------------
\* Properties of the Pump's exits

\* C28: a data-channel send error, on the frame-start or on a chunk, is the
\* last thing the Pump does with the stream: no data-channel send, no ack
\* and no consumed debugger message comes after it.
C28_SendErrorEndsPump ==
    \A r \in ResourceIds :
        \A p \in EntriesOf(r, "senderr") : p = Len(pumpLog[r])

C30_TickerStopsAfterClose ==
    /\ [](\A r \in ResourceIds :
            /\ pc[Pump(r)] = "ended" => conn[r] # "open"
            /\ ticker[r] # "none" => conn[r] # "none"
            /\ ~evalAfterClose[r])
    /\ [][\A r \in ResourceIds :
            ticks'[r] # ticks[r] => conn[r] = "open"]_vars
    /\ \A r \in ResourceIds :
        (pc[Pump(r)] = "ended" /\ ticker[r] = "running")
            ~> ticker[r] = "done"

\* A Pump whose ticker had written commands has returned, its websocket is
\* closed and the ticker has terminated while the browser still runs.
C30_Witness ==
    \E r \in ResourceIds :
        /\ pc[Pump(r)] = "ended"
        /\ conn[r] = "closed"
        /\ ticker[r] = "done"
        /\ ticks[r] >= 1
        /\ BrowserUp(r)

----------------------------------------------------------------------------
\* Properties of negotiation failures and of the stderr scanner

\* C37: once the POST /whip handler that allocated a peer connection has
\* returned, the connection is registered in the WHIP registry or has been
\* closed; a handler that returned after SetRemoteDescription, CreateAnswer
\* or SetLocalDescription failed has answered 400 or 500, registered
\* nothing and closed its peer connection.
C37_NoPeerLeak ==
    \A r \in ResourceIds :
        pc[Poster(r)] = "done" =>
            /\ r \in DOMAIN whipResources \/ closeCalls[r] >= 1
            /\ whipResp[r].status # StatusCreated =>
                /\ whipResp[r].status
                        \in {StatusBadRequest, StatusInternalServerError}
                /\ r \notin DOMAIN whipResources
                /\ closeCalls[r] >= 1

\* C38: the stderr-scanning goroutine of parseDevToolsURL is never parked
\* in the send of the URL on its unbuffered channel once parseDevToolsURL
\* has returned on its timeout (nothing receives from the channel after
\* that, so a goroutine parked there stays).
C38_ScannerTerminates ==
    \A s \in SessionIds :
        ~(scan[s] = "sending" /\ startErr[s] = "timeout")

----------------------------------------------------------------------------
\* Properties of the proxy's shutdown

\* C34: ProxyCDP leaves its piping only by receiving an error a forwarder
\* reported, and does so once one is reported; when it has returned both
\* connections are closed; and a forwarder still running after the return
\* terminates: its error report finds room in errChan.
C34_ProxyShutdown ==
    /\ [](px = "returned" => \A d \in Sides : ~connOpen[d])
    /\ [][(px = "piping" /\ px' = "returned") =>
            (errChan >= 1 /\ \E d \in Sides : fwd[d] = "done")]_vars
    /\ (px = "piping" /\ errChan > 0) ~> px = "returned"
    /\ \A d \in Sides :
        (px = "returned" /\ fwd[d] \in {"read", "write"}) ~> fwd[d] = "done"

\* ProxyCDP has returned on the error of one forwarder, the other one has
\* reported its own error since, and that error stays in errChan.
C34_Witness ==
    /\ px = "returned"
    /\ \A d \in Sides : fwd[d] = "done"
    /\ errChan = 1
    /\ \E d \in Sides : ~peerGone[d]

----------------------------------------------------------------------------
\* Properties of the locking discipline

\* The goroutine holding the lock that goroutine t is parked on (NoThread
\* when t is not parked on a lock): Stop waits for Session.mu, CreateSession
\* for the registry lock, a DELETE handler for WHIPResource.mu.  The WHIP
\* registry lock is taken and released inside one step that takes no other
\* lock, so nobody is parked on it while holding anything.
WaitsOn(t) ==
    IF pc[t] = "stop_lock" THEN smu[StopTarget(t)]
    ELSE IF pc[t] = "cs_store" THEN mu
    ELSE IF pc[t] = "wd_lock" THEN rmu[t[2]]
    ELSE NoThread

\* Following the waits n times from t.
RECURSIVE WaitChain(_, _)
WaitChain(t, n) ==
    IF n = 0 \/ t = NoThread THEN t ELSE WaitChain(WaitsOn(t), n - 1)

\* The locks a goroutine holds are the ones its control point says.
HoldsWhatItShould ==
    /\ mu \in {NoThread, Deleter}
    /\ mu = Deleter <=> pc[Deleter] # "none"
    /\ \A s \in SessionIds :
        smu[s] # NoThread => pc[smu[s]] \in {"stop_cancel", "stop_remove"}
    /\ \A r \in ResourceIds :
        rmu[r] # NoThread => pc[rmu[r]] = "wd_close"

\* No DeleteSession, no Stop, no WHIP DELETE and no connection-state
\* callback is under way, and every lock is free.
LocksQuiet ==
    /\ mu = NoThread
    /\ pc[Deleter] = "none"
    /\ \A s \in SessionIds :
        smu[s] = NoThread /\ pc[Timer(s)] \in {"none", "wait", "done"}
    /\ \A r \in ResourceIds :
        /\ rmu[r] = NoThread /\ ~closedCb[r]
        /\ \A n \in RemoverNos : pc[Remover(r, n)] = "none"

\* C39: no reachable state has a cycle of goroutines waiting on the registry
\* lock, a session lock and a resource lock; and whenever a DeleteSession,
\* a Stop of a lifetime timer, a WHIP DELETE or a connection-state callback
\* is under way, all of them complete and every lock is free again, so
\* GetSession and ListSessions get in.
C39_NoDeadlock ==
    /\ [](HoldsWhatItShould
            /\ \A t \in Threads : WaitChain(t, Cardinality(Threads)) = NoThread)
    /\ ~LocksQuiet ~> LocksQuiet

\* DeleteSession holds the registry lock and is parked on the lock of the
\* Session, which the lifetime timer's Stop holds, while a DELETE handler
\* holds the lock of a WHIP resource of that session.
C39_Witness ==
    /\ mu = Deleter
    /\ pc[Deleter] = "stop_lock"
    /\ WaitsOn(Deleter) = Timer(delId)
    /\ \E r \in ResourceIds : rmu[r] # NoThread /\ whipReq[r].sid = delId

----------------------------------------------------------------------------
\* Properties of the POST /whip body

\* C36: the SDP offer a POST /whip hands to SetRemoteDescription is the
\* whole request body, however the body is delivered (in several reads, or
\* chunked with an unknown content length), and no handler fails for an
\* unknown content length.
C36_OfferIsWholeBody ==
    /\ \A r \in ResourceIds : offerReq[r].sent => offer[r] = offerReq[r].body
    /\ ~whipPanic.sent

----------------------------------------------------------------------------
\* Properties of the data channels

\* How the channels of r stand, and the channel recorded on the resource.
C31_State ==
    \A r \in ResourceIds :
        /\ \A c \in DOMAIN chans[r] :
            /\ chans[r][c].pumps <= 1
            /\ chans[r][c].pumps = 1 <=>
                (chans[r][c].label = "screencast"
                    /\ chans[r][c].state \in {"open", "closed"})
        /\ recorded[r] # 0 =>
            /\ recorded[r] \in DOMAIN chans[r]
            /\ chans[r][recorded[r]].label = "screencast"

\* What the open and the close of a channel do.
C31_Step ==
    \A r \in ResourceIds :
        \A c \in DOMAIN chans[r] :
            /\ chans'[r][c].pumps # chans[r][c].pumps =>
                (chans[r][c].state = "announced" /\ chans'[r][c].state = "open")
            /\ (chans[r][c].state = "open" /\ chans'[r][c].state = "closed") =>
                UNCHANGED <<sessions, whipResources, recorded>>

\* C31: a Pump is started only by the open event of an inbound data channel
\* labelled screencast, once for every such channel that opens and never
\* twice for one channel; a channel with any other label is not recorded
\* on the resource and starts no Pump; the close of a channel changes
\* neither the session registry nor the WHIP registry.
C31_OnePumpPerChannel == [](C31_State) /\ [][C31_Step]_vars

\* A resource with a screencast channel that started its Pump and has since
\* closed, and a channel with another label that is open.
C31_Witness ==
    \E r \in ResourceIds :
        \E c, d \in DOMAIN chans[r] :
            /\ chans[r][c].label = "screencast"
            /\ chans[r][c].state = "closed"
            /\ chans[r][c].pumps = 1
            /\ chans[r][d].label = "Screencast"
            /\ chans[r][d].state = "open"
            /\ r \in DOMAIN whipResources

\* The indices of the entries of the target list of r whose type is page and
\* whose debugger URL is not empty.
PageEntries(r) ==
    {i \in DOMAIN targets[r].list :
        targets[r].list[i].type = "page" /\ targets[r].list[i].url # ""}

\* The lowest of them.
FirstPageEntry(r) ==
    CHOOSE i \in PageEntries(r) : \A j \in PageEntries(r) : i <= j

\* C35: the Pump dials the debugger URL of the first entry of the decoded
\* target list whose type is page and whose debugger URL is not empty, and
\* dials it once; when the list has no such entry, or the fetch or the
\* decode of /json fails, the Pump ends without a dial and without a send
\* on the data channel or a write to the debugger.
C35_PageTargetSelection ==
    \A r \in ResourceIds :
        IF targets[r].outcome = "ok" /\ PageEntries(r) # {}
        THEN /\ dialled[r] \in
                    {<<>>, <<targets[r].list[FirstPageEntry(r)].url>>}
             /\ dialled[r] = <<>> <=> pc[Pump(r)] = "dial"
        ELSE /\ dialled[r] = <<>>
             /\ conn[r] = "none"
             /\ pumpLog[r] = <<>>
             /\ cdpOut[r] = <<>>
             /\ targets[r].outcome # "none" => pc[Pump(r)] = "ended"
             /\ targets[r].outcome = "none" => pc[Pump(r)] \in {"none", "start"}

\* The first entry of type page has no debugger URL, a later one has, and
\* the Pump has dialled the later one and written to it.
C35_Witness ==
    \E r \in ResourceIds :
        /\ targets[r].outcome = "ok"
        /\ Len(targets[r].list) = 2
        /\ targets[r].list[1] = [type |-> "page", url |-> ""]
        /\ dialled[r] = <<targets[r].list[2].url>>
        /\ cdpOut[r] # <<>>

\* The methods of the first n commands of a bootstrap in the order wanted.
BootstrapOrder ==
    <<"Page.enable", "Page.bringToFront", "Page.navigate",
      "Page.startScreencast">>

\* The Pump of r has read from its websocket, sent to the peer, is in its
\* read loop, or its automation goroutine exists.
PastBootstrap(r) ==
    \/ cdpIn[r] # <<>>
    \/ pumpLog[r] # <<>>
    \/ ticks[r] > 0
    \/ ticker[r] # "none"
    \/ pc[Pump(r)] \in {"read", "chunk", "ack", "ack_w"}

\* C33: the first four commands written on the websocket of a Pump are
\* Page.enable, Page.bringToFront, Page.navigate to https://www.google.com
\* and Page.startScreencast, in this order; no ack, no Runtime.evaluate and
\* no read comes before Page.startScreencast has been written; when that
\* write fails the Pump ends without a read.
C33_BootstrapOrder ==
    \A r \in ResourceIds :
        LET out == cdpOut[r]
            n == Len(out)
        IN  /\ \A i \in 1..n : i <= 4 => out[i].method = BootstrapOrder[i]
            /\ \A i \in 1..n : i > 4 =>
                    out[i].method \in
                        {"Page.screencastFrameAck", "Runtime.evaluate"}
            /\ n >= 3 => out[3].url = "https://www.google.com"
            /\ PastBootstrap(r) => n >= 4 /\ out[4].ok
            /\ (n >= 4 /\ ~out[4].ok) =>
                    /\ n = 4
                    /\ pc[Pump(r)] = "ended"
                    /\ conn[r] = "closed"
                    /\ ~PastBootstrap(r)

\* A Pump that after its four bootstrap commands has written an ack and its
\* automation goroutine a Runtime.evaluate.
C33_Witness ==
    \E r \in ResourceIds :
        /\ Len(cdpOut[r]) >= 6
        /\ cdpIn[r] # <<>>
        /\ \E i, j \in 5..Len(cdpOut[r]) :
            /\ cdpOut[r][i].method = "Page.screencastFrameAck"
            /\ cdpOut[r][j].method = "Runtime.evaluate"

\* Who is inside conn.WriteJSON on the websocket of the Pump of r, by the
\* position of the Pump and of its automation goroutine.
InWrite(r) ==
    {w \in {"pump"} : pc[Pump(r)] \in {"boot_w", "ack_w"}}
        \cup {w \in {"ticker"} : ticker[r] = "writing"}

C32_State ==
    \A r \in ResourceIds :
        /\ writing[r] = InWrite(r)
        /\ Cardinality(writing[r]) <= 1
        /\ pc[Pump(r)] = "ack_w" => writeMu[r] = "pump"
        /\ ticker[r] = "writing" => writeMu[r] = "ticker"
        /\ pc[Pump(r)] \in {"start", "dial", "boot", "boot_w"} =>
            /\ writeMu[r] = "none"
            /\ ticker[r] = "none"
            /\ \A i \in DOMAIN cdpOut[r] :
                    cdpOut[r][i].method \notin
                        {"Page.screencastFrameAck", "Runtime.evaluate"}

\* A step that completes a write of an ack or of a Runtime.evaluate is
\* taken by the holder of writeMu.
C32_Step ==
    \A r \in ResourceIds :
        cdpOut'[r] # cdpOut[r] =>
            LET w == cdpOut'[r][Len(cdpOut'[r])] IN
                /\ w.method = "Page.screencastFrameAck" => writeMu[r] = "pump"
                /\ w.method = "Runtime.evaluate" => writeMu[r] = "ticker"
                /\ writeMu[r] # "none" => writeMu'[r] = "none"

\* C32: no two writes are in progress at once on the websocket of a Pump;
\* every write of an ack and every write of the automation goroutine is
\* made by the holder of writeMu; the bootstrap writes, which take no
\* lock, are over before the automation goroutine exists and before the
\* first ack.
C32_SingleWriter == [](C32_State) /\ [][C32_Step]_vars

\* The automation goroutine is inside its write and holds writeMu while the
\* Pump has sent a frame and waits to write the ack.
C32_Witness ==
    \E r \in ResourceIds :
        /\ ticker[r] = "writing"
        /\ writeMu[r] = "ticker"
        /\ pc[Pump(r)] = "ack"
        /\ conn[r] = "open"

\* Entry i of what the Pump of r has read is a message the read loop drops:
\* no frame event, or a frame event that does not decode.
Dropped(r, i) == cdpIn[r][i].kind # "frame" \/ cdpIn[r][i].fault # "none"

\* What the Pump does for the peer or writes to the debugger.
Outputs == {"text", "binary", "senderr", "ack"}

\* No output of the Pump of r belongs to a frame event that did not decode.
C40_State ==
    \A r \in ResourceIds :
        \A i \in DOMAIN cdpIn[r] :
            (cdpIn[r][i].kind = "frame" /\ Dropped(r, i)) =>
                \A p \in DOMAIN pumpLog[r] :
                    pumpLog[r][p].ev \in Outputs =>
                        pumpLog[r][p].frame # cdpIn[r][i].frame

\* The read of a dropped message adds no output, writes nothing to the
\* debugger and leaves the Pump in its read loop with its websocket.
C40_Step ==
    \A r \in ResourceIds :
        LET read == cdpIn'[r][Len(cdpIn'[r])] IN
        (cdpIn'[r] # cdpIn[r] /\ (read.kind # "frame" \/ read.fault # "none"))
            =>  /\ pc'[Pump(r)] = "read"
                /\ UNCHANGED <<conn, cdpOut, cur, dcState>>
                /\ \A p \in DOMAIN pumpLog'[r] :
                        p > Len(pumpLog[r]) =>
                            pumpLog'[r][p].ev \notin Outputs
                /\ read.kind # "frame" => UNCHANGED pumpLog

\* C40: a Page.screencastFrame event whose params or whose data do not
\* decode produces no frame-start and no chunk and does not end the Pump;
\* a message of another method, a reply and a message that does not parse
\* cause no send on the data channel and no write to the debugger.
C40_DroppedMessages == [](C40_State) /\ [][C40_Step]_vars

\* The Pump has read a frame event that does not decode and a message that
\* is no frame event, and after them a frame that it sent and acknowledged.
C40_Witness ==
    \E r \in ResourceIds :
        \E i, j, k \in DOMAIN cdpIn[r] :
            /\ i < k /\ j < k
            /\ cdpIn[r][i].kind = "frame" /\ cdpIn[r][i].fault # "none"
            /\ cdpIn[r][j].kind # "frame"
            /\ cdpIn[r][k].kind = "frame" /\ cdpIn[r][k].fault = "none"
            /\ \E p \in DOMAIN pumpLog[r] :
                    pumpLog[r][p].ev = "ack"
                        /\ pumpLog[r][p].frame = cdpIn[r][k].frame

====
